---- MODULE Spec2Model ----
(***************************************************************************)
(* Model of the Jira MCP server: the tool dispatcher, the resource         *)
(* provider and the JiraClient REST wrapper.  One inbound call is followed *)
(* from its arrival through every HTTP round trip to its reply.            *)
(***************************************************************************)
EXTENDS Integers, Sequences, FiniteSets, TLC

(***************************************************************************)
(* Bounds of the model.                                                    *)
(***************************************************************************)
\* how many issues the storing tracker holds
MaxIssues == 2

\* how many calls the server serves at once
MaxInFlight == 2

\* how many argument keys of a call may differ from the canonical call
MaxArgEdits == 2
\* how many keys a customFields overlay may carry
MaxCustomKeys == 1
\* how many issue types / projects a remote listing may carry
MaxListLen == 2

(***************************************************************************)
(* JavaScript values.  Every value carries its runtime type, so that the   *)
(* truthiness tests, the zod type checks and JSON.stringify can be         *)
(* computed as the runtime computes them.                                  *)
(***************************************************************************)
Undef == [t |-> "undefined"]
Null == [t |-> "null"]
Str(s) == [t |-> "string", s |-> s]
Num(n) == [t |-> "number", n |-> n]
Bool(b) == [t |-> "boolean", b |-> b]
Arr(items) == [t |-> "array", a |-> items]
Obj(m) == [t |-> "object", o |-> m]

NoProps == [k \in {} |-> Undef]
One(k, v) == [x \in {k} |-> v]

\* property lookup obj.k: a missing property reads as undefined
Get(obj, k) == IF obj.t = "object" /\ k \in DOMAIN obj.o THEN obj.o[k] ELSE Undef

\* Object.assign(a, b) / { ...a, ...b } on property maps
Assign(a, b) == [k \in DOMAIN a \cup DOMAIN b |-> IF k \in DOMAIN b THEN b[k] ELSE a[k]]

\* JavaScript ToBoolean
Truthy(v) ==
  CASE v.t = "undefined" -> FALSE
    [] v.t = "null" -> FALSE
    [] v.t = "string" -> v.s # ""
    [] v.t = "number" -> v.n # 0
    [] v.t = "boolean" -> v.b
    [] OTHER -> TRUE

\* a spread that tests for undefined instead of truthiness
SpreadIf_Defined(v, m) == IF v.t # "undefined" THEN m ELSE NoProps

\* a spread that sends a null placeholder for a value it skips
SpreadIf_NullPlaceholder(v, m) == IF Truthy(v) THEN m ELSE [k \in DOMAIN m |-> Null]

\* ...(v && { k: w }) inside an object literal
SpreadIf(v, m) == IF Truthy(v) THEN m ELSE NoProps

\* String.prototype.toLowerCase over the strings of the model
ToLowerCase(s) ==
  CASE s = "Bug" -> "bug"
    [] s = "BUG" -> "bug"
    [] s = "Task" -> "task"
    [] OTHER -> s

\* encodeURIComponent over the strings of the model
EncodeURIComponent(s) ==
  CASE s = "al ice" -> "al%20ice"
    [] s = "a&b" -> "a%26b"
    [] OTHER -> s

\* Array.prototype.join(",") on an array of strings, as a token sequence
RECURSIVE JoinComma(_)
JoinComma(items) ==
  IF Len(items) = 0 THEN <<>>
  ELSE IF Len(items) = 1 THEN <<items[1].s>>
  ELSE <<items[1].s, ",">> \o JoinComma(Tail(items))

(***************************************************************************)
(* JSON.stringify: properties whose value is undefined are dropped, an     *)
(* undefined array element becomes null, null is kept.  response.json()    *)
(* parses such a text back; an empty or non-JSON text does not parse.      *)
(***************************************************************************)
RECURSIVE JsonValue(_)
JsonValue(v) ==
  CASE v.t = "object" ->
         Obj([k \in {j \in DOMAIN v.o : v.o[j].t # "undefined"} |-> JsonValue(v.o[k])])
    [] v.t = "array" ->
         Arr([i \in 1..Len(v.a) |-> IF v.a[i].t = "undefined" THEN Null ELSE JsonValue(v.a[i])])
    [] OTHER -> v

NoBody == [kind |-> "none"]
EmptyText == [kind |-> "empty"]
GarbageText == [kind |-> "garbage", raw |-> "<html>Bad Gateway</html>"]
JsonText(v) == [kind |-> "json", v |-> v]

JSONStringify(v) == IF v.t = "undefined" THEN NoBody ELSE JsonText(JsonValue(v))

(***************************************************************************)
(* Outcomes of an awaited computation.                                     *)
(***************************************************************************)
Value(v) == [k |-> "value", v |-> v]
Throw(e) == [k |-> "throw", e |-> e]
Error(msg) == [cls |-> "Error", msg |-> msg]
Plain(text) == [fmt |-> text]
SyntaxError == [cls |-> "SyntaxError", msg |-> Plain("Unexpected end of JSON input")]
TypeError == [cls |-> "TypeError", msg |-> Plain("Cannot read properties of undefined")]
ZodError(issues) == [cls |-> "ZodError", issues |-> issues]
McpError(code, msg) == [cls |-> "McpError", code |-> code, msg |-> msg]

(***************************************************************************)
(* The zod input schemas.  A schema is the sequence of its fields in       *)
(* declaration order.                                                      *)
(***************************************************************************)
Req(k, ty) == [k |-> k, ty |-> ty, opt |-> FALSE, nullable |-> FALSE, def |-> Undef]
Opt(k, ty) == [k |-> k, ty |-> ty, opt |-> TRUE, nullable |-> FALSE, def |-> Undef]
Dflt(k, ty, d) == [k |-> k, ty |-> ty, opt |-> TRUE, nullable |-> FALSE, def |-> d]
Nullable(k, ty) == [k |-> k, ty |-> ty, opt |-> FALSE, nullable |-> TRUE, def |-> Undef]

GetIssueSchema == <<Req("issueKey", "string"), Opt("expand", "strings")>>
SearchIssuesSchema ==
  <<Req("jql", "string"), Dflt("startAt", "number", Num(0)),
    Dflt("maxResults", "number", Num(50)), Opt("fields", "strings")>>
CreateIssueSchema ==
  <<Req("projectKey", "string"), Req("summary", "string"), Req("issueType", "string"),
    Opt("description", "string"), Opt("priority", "string"), Opt("assignee", "string"),
    Opt("labels", "strings")>>
UpdateIssueSchema ==
  <<Req("issueKey", "string"), Opt("summary", "string"), Opt("description", "string"),
    Opt("priority", "string"), Opt("assignee", "string"), Opt("labels", "strings")>>
AddCommentSchema == <<Req("issueKey", "string"), Req("body", "string")>>
TransitionIssueSchema ==
  <<Req("issueKey", "string"), Req("transitionId", "string"), Opt("comment", "string")>>
AssignIssueSchema == <<Req("issueKey", "string"), Nullable("assignee", "string")>>
GetCommentsSchema == <<Req("issueKey", "string")>>
GetTransitionsSchema == <<Req("issueKey", "string")>>
DeleteIssueSchema == <<Req("issueKey", "string")>>
GetProjectSchema == <<Req("projectKey", "string")>>
SearchUsersSchema == <<Req("query", "string")>>
LinkIssuesSchema ==
  <<Req("inwardIssue", "string"), Req("outwardIssue", "string"), Req("linkType", "string")>>
AddWatcherSchema == <<Req("issueKey", "string"), Req("username", "string")>>
GetCreateMetaSchema == <<Req("projectKey", "string"), Opt("issueType", "string")>>
GetEditMetaSchema == <<Req("issueKey", "string")>>
GetProjectVersionsSchema == <<Req("projectKey", "string")>>
GetProjectComponentsSchema == <<Req("projectKey", "string")>>
CreateIssueAdvancedSchema ==
  <<Req("projectKey", "string"), Req("summary", "string"), Req("issueType", "string"),
    Opt("description", "string"), Opt("priority", "string"), Opt("assignee", "string"),
    Opt("reporter", "string"), Opt("labels", "strings"), Opt("components", "strings"),
    Opt("fixVersions", "strings"), Opt("affectsVersions", "strings"),
    Opt("customFields", "record")>>
UpdateIssueAdvancedSchema ==
  <<Req("issueKey", "string"), Opt("summary", "string"), Opt("description", "string"),
    Opt("priority", "string"), Opt("assignee", "string"), Opt("labels", "strings"),
    Opt("components", "strings"), Opt("fixVersions", "strings"),
    Opt("affectsVersions", "strings"), Opt("customFields", "record")>>
GetFieldOptionsSchema ==
  <<Req("projectKey", "string"), Req("issueType", "string"), Req("fieldKey", "string")>>

(***************************************************************************)
(* The registry: the names the dispatcher's switch handles, and the schema *)
(* each case parses its arguments with (six cases parse nothing).          *)
(***************************************************************************)
NoSchemaTools ==
  {"jira_get_projects", "jira_get_current_user", "jira_get_priorities",
   "jira_get_statuses", "jira_get_fields", "jira_get_issue_link_types"}

ToolSchema(name) ==
  CASE name = "jira_get_issue" -> GetIssueSchema
    [] name = "jira_search_issues" -> SearchIssuesSchema
    [] name = "jira_create_issue" -> CreateIssueSchema
    [] name = "jira_update_issue" -> UpdateIssueSchema
    [] name = "jira_delete_issue" -> DeleteIssueSchema
    [] name = "jira_assign_issue" -> AssignIssueSchema
    [] name = "jira_get_comments" -> GetCommentsSchema
    [] name = "jira_add_comment" -> AddCommentSchema
    [] name = "jira_get_transitions" -> GetTransitionsSchema
    [] name = "jira_transition_issue" -> TransitionIssueSchema
    [] name = "jira_get_project" -> GetProjectSchema
    [] name = "jira_search_users" -> SearchUsersSchema
    [] name = "jira_link_issues" -> LinkIssuesSchema
    [] name = "jira_add_watcher" -> AddWatcherSchema
    [] name = "jira_get_create_meta" -> GetCreateMetaSchema
    [] name = "jira_get_edit_meta" -> GetEditMetaSchema
    [] name = "jira_get_project_versions" -> GetProjectVersionsSchema
    [] name = "jira_get_project_components" -> GetProjectComponentsSchema
    [] name = "jira_get_field_options" -> GetFieldOptionsSchema
    [] name = "jira_create_issue_advanced" -> CreateIssueAdvancedSchema
    [] name = "jira_update_issue_advanced" -> UpdateIssueAdvancedSchema
    [] OTHER -> <<>>

SchemaTools ==
  {"jira_get_issue", "jira_search_issues", "jira_create_issue", "jira_update_issue",
   "jira_delete_issue", "jira_assign_issue", "jira_get_comments", "jira_add_comment",
   "jira_get_transitions", "jira_transition_issue", "jira_get_project",
   "jira_search_users", "jira_link_issues", "jira_add_watcher", "jira_get_create_meta",
   "jira_get_edit_meta", "jira_get_project_versions", "jira_get_project_components",
   "jira_get_field_options", "jira_create_issue_advanced", "jira_update_issue_advanced"}

\* a switch that lacks the case of one advertised tool
HandledTools_NoAdvancedUpdate ==
  (SchemaTools \cup NoSchemaTools) \ {"jira_update_issue_advanced"}

HandledTools == SchemaTools \cup NoSchemaTools

\* the names the ListToolsRequestSchema handler advertises
\* in the order of the listing
ListTools ==
  <<"jira_get_issue", "jira_search_issues", "jira_create_issue", "jira_update_issue",
   "jira_delete_issue", "jira_assign_issue", "jira_get_comments", "jira_add_comment",
   "jira_get_transitions", "jira_transition_issue", "jira_get_projects",
   "jira_get_project", "jira_search_users", "jira_get_current_user", "jira_link_issues",
   "jira_add_watcher", "jira_get_priorities", "jira_get_statuses", "jira_get_create_meta",
   "jira_get_edit_meta", "jira_get_project_versions", "jira_get_project_components",
   "jira_get_fields", "jira_get_field_options", "jira_get_issue_link_types",
   "jira_create_issue_advanced", "jira_update_issue_advanced">>

ListedTools == {ListTools[i] : i \in 1..Len(ListTools)}

(***************************************************************************)
(* Schema.parse(args): zod checks every field of the shape in order and    *)
(* collects one issue per violation; unknown keys are stripped, an absent  *)
(* field with a default takes the default.                                 *)
(***************************************************************************)
ExpectedType(ty) ==
  CASE ty = "strings" -> "array" [] ty = "record" -> "object" [] OTHER -> ty

Expected(ty, v) == <<"Expected ", ExpectedType(ty), ", received ", v.t>>

RECURSIVE ElementIssues(_)
ElementIssues(items) ==
  IF Len(items) = 0 THEN <<>>
  ELSE (IF items[1].t = "string" THEN <<>>
        ELSE IF items[1].t = "undefined" THEN << <<"Required">> >>
        ELSE <<Expected("string", items[1])>>) \o ElementIssues(Tail(items))

FieldIssues(f, v) ==
  IF v.t = "undefined" THEN (IF f.opt THEN <<>> ELSE << <<"Required">> >>)
  ELSE IF v.t = "null" /\ f.nullable THEN <<>>
  ELSE IF v.t # ExpectedType(f.ty) THEN <<Expected(f.ty, v)>>
  ELSE IF f.ty = "strings" THEN ElementIssues(v.a)
  ELSE <<>>

RECURSIVE ShapeIssues(_, _)
ShapeIssues(schema, args) ==
  IF Len(schema) = 0 THEN <<>>
  ELSE FieldIssues(schema[1], Get(args, schema[1].k)) \o ShapeIssues(Tail(schema), args)

ZodIssues(schema, args) ==
  IF args.t = "undefined" THEN << <<"Required">> >>
  ELSE IF args.t # "object" THEN <<Expected("record", args)>>
  ELSE ShapeIssues(schema, args)

ParsedField(f, v) == IF v.t = "undefined" THEN f.def ELSE v

Parsed(schema, args) ==
  LET keys == {schema[i].k : i \in 1..Len(schema)}
      spec(k) == CHOOSE f \in {schema[i] : i \in 1..Len(schema)} : f.k = k
      out(k) == ParsedField(spec(k), Get(args, k))
  IN Obj([k \in {j \in keys : out(j).t # "undefined"} |-> out(k)])

\* parse throws a ZodError carrying every issue, or returns the parsed object
ParseResult(issues, schema, args) ==
  IF Len(issues) > 0 THEN Throw(ZodError(issues)) ELSE Value(Parsed(schema, args))

SchemaParse(schema, args) == ParseResult(ZodIssues(schema, args), schema, args)

(***************************************************************************)
(* JiraClient.  Every method builds one call of request(endpoint, options);*)
(* the HTTP request is kept as method, endpoint (the tokens of the         *)
(* template string after /rest/api/2) and body.                            *)
(***************************************************************************)
Http(method, endpoint, body) ==
  [method |-> method, endpoint |-> endpoint, body |-> body, headers |-> NoProps]

\* request(endpoint, { headers }) called with headers of its own
requestWith(endpoint, options) ==
  [method |-> "GET", endpoint |-> <<endpoint.s>>, body |-> NoBody,
   headers |-> Get(options, "headers").o]

Rec2(k1, v1, k2, v2) == Assign(One(k1, v1), One(k2, v2))
Rec3(k1, v1, k2, v2, k3, v3) == Assign(Rec2(k1, v1, k2, v2), One(k3, v3))
Strs(seq) == Arr([i \in 1..Len(seq) |-> Str(seq[i])])

getIssue(issueKey, expand) ==
  Http("GET",
       <<"/issue/", issueKey.s>> \o
         (IF Truthy(expand) THEN <<"?expand=">> \o JoinComma(expand.a) ELSE <<>>),
       NoBody)

createIssue(data) == Http("POST", <<"/issue">>, JSONStringify(data))

updateIssue(issueKey, data) == Http("PUT", <<"/issue/", issueKey.s>>, JSONStringify(data))

deleteIssue(issueKey) == Http("DELETE", <<"/issue/", issueKey.s>>, NoBody)

\* an assign that leaves the name out when there is no username
assignIssue_Omit(issueKey, username) ==
  Http("PUT", <<"/issue/", issueKey.s, "/assignee">>,
       JSONStringify(Obj(One("name", IF username.t = "null" THEN Undef ELSE username))))

assignIssue(issueKey, username) ==
  Http("PUT", <<"/issue/", issueKey.s, "/assignee">>,
       JSONStringify(Obj(One("name", username))))

DefaultSearchFields ==
  <<"summary", "status", "assignee", "reporter", "priority", "created", "updated",
    "issuetype", "project", "description", "labels", "components">>

\* a search that sends the caller's field list as it is, without a default
searchIssues_NoDefaultFields(jql, startAt, maxResults, fields) ==
  Http("POST", <<"/search">>,
       JSONStringify(Obj(
         Assign(Rec3("jql", jql,
                     "startAt", IF startAt.t = "undefined" THEN Num(0) ELSE startAt,
                     "maxResults", IF maxResults.t = "undefined" THEN Num(50) ELSE maxResults),
                One("fields", fields)))))

searchIssues(jql, startAt, maxResults, fields) ==
  Http("POST", <<"/search">>,
       JSONStringify(Obj(
         Assign(Rec3("jql", jql,
                     "startAt", IF startAt.t = "undefined" THEN Num(0) ELSE startAt,
                     "maxResults", IF maxResults.t = "undefined" THEN Num(50) ELSE maxResults),
                One("fields", IF Truthy(fields) THEN fields ELSE Strs(DefaultSearchFields))))))

getProjects == Http("GET", <<"/project">>, NoBody)

getProject(projectKey) == Http("GET", <<"/project/", projectKey.s>>, NoBody)

getComments(issueKey) == Http("GET", <<"/issue/", issueKey.s, "/comment">>, NoBody)

addComment(issueKey, body) ==
  Http("POST", <<"/issue/", issueKey.s, "/comment">>, JSONStringify(Obj(One("body", body))))

updateComment(issueKey, commentId, body) ==
  Http("PUT", <<"/issue/", issueKey.s, "/comment/", commentId.s>>,
       JSONStringify(Obj(One("body", body))))

deleteComment(issueKey, commentId) ==
  Http("DELETE", <<"/issue/", issueKey.s, "/comment/", commentId.s>>, NoBody)

getTransitions(issueKey) == Http("GET", <<"/issue/", issueKey.s, "/transitions">>, NoBody)

\* a transition that never carries the comment
transitionIssue_NoComment(issueKey, transitionId, comment) ==
  Http("POST", <<"/issue/", issueKey.s, "/transitions">>,
       JSONStringify(Obj(One("transition", Obj(One("id", transitionId))))))

transitionIssue(issueKey, transitionId, comment) ==
  LET base == One("transition", Obj(One("id", transitionId)))
      update == Obj(One("comment", Arr(<<Obj(One("add", Obj(One("body", comment))))>>)))
      body == IF Truthy(comment) THEN Assign(base, One("update", update)) ELSE base
  IN Http("POST", <<"/issue/", issueKey.s, "/transitions">>, JSONStringify(Obj(body)))

searchUsers(query) ==
  Http("GET", <<"/user/search?username=", EncodeURIComponent(query.s)>>, NoBody)

getCurrentUser == Http("GET", <<"/myself">>, NoBody)

addWatcher(issueKey, username) ==
  Http("POST", <<"/issue/", issueKey.s, "/watchers">>, JSONStringify(username))

removeWatcher(issueKey, username) ==
  Http("DELETE",
       <<"/issue/", issueKey.s, "/watchers?username=", EncodeURIComponent(username.s)>>,
       NoBody)

linkIssues(inwardIssue, outwardIssue, linkType) ==
  Http("POST", <<"/issueLink">>,
       JSONStringify(Obj(Rec3("type", Obj(One("name", linkType)),
                              "inwardIssue", Obj(One("key", inwardIssue)),
                              "outwardIssue", Obj(One("key", outwardIssue))))))

getIssueTypesForProject(projectKey) == Http("GET", <<"/project/", projectKey.s>>, NoBody)

getPriorities == Http("GET", <<"/priority">>, NoBody)

getStatuses == Http("GET", <<"/status">>, NoBody)

getCreateMetaIssueTypes(projectKey) ==
  Http("GET", <<"/issue/createmeta/", projectKey.s, "/issuetypes">>, NoBody)

getCreateMetaFields(projectKey, issueTypeId) ==
  Http("GET",
       <<"/issue/createmeta/", projectKey.s, "/issuetypes/", issueTypeId.s, "?maxResults=100">>,
       NoBody)

getEditMeta(issueKey) == Http("GET", <<"/issue/", issueKey.s, "/editmeta">>, NoBody)

getProjectVersions(projectKey) ==
  Http("GET", <<"/project/", projectKey.s, "/versions">>, NoBody)

getProjectComponents(projectKey) ==
  Http("GET", <<"/project/", projectKey.s, "/components">>, NoBody)

getFields == Http("GET", <<"/field">>, NoBody)

getIssueLinkTypes == Http("GET", <<"/issueLinkType">>, NoBody)

createIssueRaw(fields) ==
  Http("POST", <<"/issue">>, JSONStringify(Obj(One("fields", fields))))

updateIssueRaw(issueKey, fields) ==
  Http("PUT", <<"/issue/", issueKey.s>>, JSONStringify(Obj(One("fields", fields))))

(***************************************************************************)
(* JiraClient.request, after fetch has resolved with a response: a status  *)
(* outside 200..299 throws with the status and the raw text, a 204 gives   *)
(* {}, anything else is handed to response.json().                         *)
(***************************************************************************)
PAT == "s3cr3t-pat"

\* config.baseUrl.replace(/\/$/, ""), over the base URLs of the model
StripTrailingSlash(url) ==
  IF url = "https://jira.example.com/" THEN "https://jira.example.com" ELSE url

\* the string `Bearer ${pat}`
Bearer(pat) == [t |-> "string", bearer |-> pat]

\* new JiraClient(config): the base URL and the three default headers
JiraClient(config) ==
  [baseUrl |-> StripTrailingSlash(config.baseUrl),
   headers |-> [h \in {"Authorization", "Content-Type", "Accept"} |->
                  IF h = "Authorization" THEN Bearer(config.pat)
                  ELSE Str("application/json")]]

\* headers that keep only what the call gave, when it gave any
FetchHeaders_CallOnly(c, headers) ==
  IF DOMAIN headers = {} THEN c.headers ELSE headers

\* { ...this.headers, ...options.headers }
FetchHeaders(c, headers) == Assign(c.headers, headers)

\* fetch(url, { ...options, headers }) as issued by request on the client c
FetchCall(c, r) ==
  [method |-> r.method, endpoint |-> r.endpoint, body |-> r.body,
   url |-> <<c.baseUrl, "/rest/api/2">> \o r.endpoint,
   headers |-> FetchHeaders(c, r.headers)]

NoResp == [status |-> 0, body |-> NoBody]
Response(status, body) == [status |-> status, body |-> body]

ResponseOk(resp) == resp.status >= 200 /\ resp.status <= 299

\* an error message that keeps the status and drops the response text
ApiErrorMsg_StatusOnly(status, text) ==
  [fmt |-> "Jira API error ({status}): {errorText}", status |-> status, errorText |-> EmptyText]

ApiErrorMsg(status, text) ==
  [fmt |-> "Jira API error ({status}): {errorText}", status |-> status, errorText |-> text]

ResponseJson(resp) ==
  IF resp.body.kind = "json" THEN Value(resp.body.v) ELSE Throw(SyntaxError)

request(resp) ==
  IF ~ResponseOk(resp) THEN Throw(Error(ApiErrorMsg(resp.status, resp.body)))
  ELSE IF resp.status = 204 THEN Value(Obj(NoProps))
  ELSE ResponseJson(resp)

(***************************************************************************)
(* An invocation of a client method: the method name and its arguments.    *)
(***************************************************************************)
Op(m, a) == [m |-> m, a |-> a]

VoidMethods ==
  {"updateIssue", "deleteIssue", "assignIssue", "deleteComment", "transitionIssue",
   "addWatcher", "removeWatcher", "linkIssues", "updateIssueRaw"}

CompositeMethods == {"getCreateMeta", "getFieldOptions"}

\* the one HTTP request a non-composite method issues
MethodRequest(op) ==
  CASE op.m = "getIssue" -> getIssue(op.a[1], op.a[2])
    [] op.m = "createIssue" -> createIssue(op.a[1])
    [] op.m = "updateIssue" -> updateIssue(op.a[1], op.a[2])
    [] op.m = "deleteIssue" -> deleteIssue(op.a[1])
    [] op.m = "assignIssue" -> assignIssue(op.a[1], op.a[2])
    [] op.m = "searchIssues" -> searchIssues(op.a[1], op.a[2], op.a[3], op.a[4])
    [] op.m = "getProjects" -> getProjects
    [] op.m = "getProject" -> getProject(op.a[1])
    [] op.m = "getComments" -> getComments(op.a[1])
    [] op.m = "addComment" -> addComment(op.a[1], op.a[2])
    [] op.m = "updateComment" -> updateComment(op.a[1], op.a[2], op.a[3])
    [] op.m = "deleteComment" -> deleteComment(op.a[1], op.a[2])
    [] op.m = "getTransitions" -> getTransitions(op.a[1])
    [] op.m = "transitionIssue" -> transitionIssue(op.a[1], op.a[2], op.a[3])
    [] op.m = "searchUsers" -> searchUsers(op.a[1])
    [] op.m = "getCurrentUser" -> getCurrentUser
    [] op.m = "addWatcher" -> addWatcher(op.a[1], op.a[2])
    [] op.m = "removeWatcher" -> removeWatcher(op.a[1], op.a[2])
    [] op.m = "linkIssues" -> linkIssues(op.a[1], op.a[2], op.a[3])
    [] op.m = "getIssueTypesForProject" -> getIssueTypesForProject(op.a[1])
    [] op.m = "getPriorities" -> getPriorities
    [] op.m = "getStatuses" -> getStatuses
    [] op.m = "getCreateMetaIssueTypes" -> getCreateMetaIssueTypes(op.a[1])
    [] op.m = "getCreateMetaFields" -> getCreateMetaFields(op.a[1], op.a[2])
    [] op.m = "getEditMeta" -> getEditMeta(op.a[1])
    [] op.m = "getProjectVersions" -> getProjectVersions(op.a[1])
    [] op.m = "getProjectComponents" -> getProjectComponents(op.a[1])
    [] op.m = "getFields" -> getFields
    [] op.m = "getIssueLinkTypes" -> getIssueLinkTypes
    [] op.m = "createIssueRaw" -> createIssueRaw(op.a[1])
    [] op.m = "updateIssueRaw" -> updateIssueRaw(op.a[1], op.a[2])
    [] op.m = "request" -> requestWith(op.a[1], op.a[2])

\* what the method returns once its request has settled
MethodResult(op, out) ==
  IF out.k = "throw" THEN out
  ELSE IF op.m \in VoidMethods THEN Value(Undef)
  ELSE IF op.m = "getIssueTypesForProject" THEN
         (IF out.v.t # "object" THEN Throw(TypeError)
          ELSE Value(IF Truthy(Get(out.v, "issueTypes"))
                     THEN Get(out.v, "issueTypes") ELSE Arr(<<>>)))
  ELSE out

(***************************************************************************)
(* A run of a client method over the log of the requests it has issued so  *)
(* far (each with its response, NoResp while in flight).  The run either   *)
(* sends further requests, waits, or settles with a value or a throw.      *)
(***************************************************************************)
\* at is the rank of the response among the responses of the call (0 while
\* the request is in flight)
Entry(req) == [req |-> req, resp |-> NoResp, at |-> 0]

\* the log once request i has been answered with resp
Resolve(log, i, resp) ==
  [log EXCEPT ![i] = [req |-> log[i].req, resp |-> resp,
                      at |-> Cardinality({j \in 1..Len(log) : log[j].resp # NoResp}) + 1]]
Send(reqs) == [k |-> "send", reqs |-> reqs]
Wait == [k |-> "wait"]

\* a run that sends the request once more after a failure
SimpleRun_Retry(op, log) ==
  IF Len(log) = 0 THEN Send(<<MethodRequest(op)>>)
  ELSE IF log[Len(log)].resp = NoResp THEN Wait
  ELSE IF request(log[Len(log)].resp).k = "throw" /\ Len(log) < 2
    THEN Send(<<MethodRequest(op)>>)
  ELSE MethodResult(op, request(log[Len(log)].resp))

SimpleRun(op, log) ==
  IF Len(log) = 0 THEN Send(<<MethodRequest(op)>>)
  ELSE IF log[1].resp = NoResp THEN Wait
  ELSE MethodResult(op, request(log[1].resp))

\* .values of a createmeta page, which the code maps or filters
PageValues(out) ==
  IF out.k = "throw" THEN out
  ELSE IF Get(out.v, "values").t # "array" THEN Throw(TypeError)
  ELSE Value(Get(out.v, "values"))

\* the filter of getCreateMeta: case-insensitive on the name, when a name is given
FilteredTypes(issueTypes, issueTypeName) ==
  LET Same(t) == ToLowerCase(Get(t, "name").s) = ToLowerCase(issueTypeName.s)
  IN IF Truthy(issueTypeName) THEN SelectSeq(issueTypes, Same) ELSE issueTypes

\* one element of the result of getCreateMeta
MetaField(f) ==
  Obj(Assign(Rec3("fieldId", Get(f, "fieldId"), "name", Get(f, "name"),
                  "required", Get(f, "required")),
             Rec2("hasAllowedValues", Bool(Truthy(Get(f, "allowedValues"))),
                  "allowedValues", Get(f, "allowedValues"))))

MetaIssueType(issueType, fieldValues) ==
  Obj(Rec3("id", Get(issueType, "id"), "name", Get(issueType, "name"),
           "fields", Arr([i \in 1..Len(fieldValues) |-> MetaField(fieldValues[i])])))

\* await Promise.all(filteredTypes.map(async (issueType) => ...)) and the result
CreateMetaFields(projectKey, filteredTypes, log) ==
  LET n == Len(filteredTypes)
      fields(i) == PageValues(request(log[i + 1].resp))
      failed == {i \in 1..n : log[i + 1].resp # NoResp /\ fields(i).k = "throw"}
  IN IF n = 0 THEN Value(Obj(Rec2("projectKey", projectKey, "issueTypes", Arr(<<>>))))
     ELSE IF Len(log) = 1 THEN
       Send([i \in 1..n |-> getCreateMetaFields(projectKey, Get(filteredTypes[i], "id"))])
     ELSE IF failed # {} THEN fields(CHOOSE i \in failed : TRUE)
     ELSE IF \E i \in 1..n : log[i + 1].resp = NoResp THEN Wait
     ELSE Value(Obj(Rec2("projectKey", projectKey,
                         "issueTypes",
                         Arr([i \in 1..n |-> MetaIssueType(filteredTypes[i], fields(i).v.a)]))))

\* getCreateMeta once the issue types page has settled
CreateMetaTypes(projectKey, issueTypeName, types, log) ==
  IF types.k = "throw" THEN types
  ELSE CreateMetaFields(projectKey, FilteredTypes(types.v.a, issueTypeName), log)

getCreateMeta(projectKey, issueTypeName, log) ==
  IF Len(log) = 0 THEN Send(<<getCreateMetaIssueTypes(projectKey)>>)
  ELSE IF log[1].resp = NoResp THEN Wait
  ELSE CreateMetaTypes(projectKey, issueTypeName, PageValues(request(log[1].resp)), log)

\* fields.find((f) => f.fieldId === fieldKey)
FindField(fs, fieldKey) ==
  LET hit == {i \in 1..Len(fs) : Get(fs[i], "fieldId") = fieldKey}
  IN IF hit = {} THEN Undef ELSE fs[CHOOSE i \in hit : \A j \in hit : i <= j]

\* field?.allowedValues || []
AllowedOrEmpty(field) ==
  IF Truthy(Get(field, "allowedValues")) THEN Get(field, "allowedValues") ELSE Arr(<<>>)

\* getFieldOptions reading the last of the issue types instead of the first
FieldOptions_LastType(meta, fieldKey) ==
  IF meta.k # "value" THEN meta
  ELSE IF Len(Get(meta.v, "issueTypes").a) = 0 THEN Value(Arr(<<>>))
  ELSE Value(AllowedOrEmpty(FindField(
         Get(Get(meta.v, "issueTypes").a[Len(Get(meta.v, "issueTypes").a)], "fields").a,
         fieldKey)))

\* getFieldOptions once getCreateMeta has settled with meta
FieldOptions(meta, fieldKey) ==
  IF meta.k # "value" THEN meta
  ELSE IF Len(Get(meta.v, "issueTypes").a) = 0 THEN Value(Arr(<<>>))
  ELSE Value(AllowedOrEmpty(FindField(Get(Get(meta.v, "issueTypes").a[1], "fields").a, fieldKey)))

getFieldOptions(projectKey, issueTypeName, fieldKey, log) ==
  FieldOptions(getCreateMeta(projectKey, issueTypeName, log), fieldKey)

ClientRun(op, log) ==
  CASE op.m = "getCreateMeta" -> getCreateMeta(op.a[1], op.a[2], log)
    [] op.m = "getFieldOptions" -> getFieldOptions(op.a[1], op.a[2], op.a[3], log)
    [] OTHER -> SimpleRun(op, log)

(***************************************************************************)
(* The CallToolRequestSchema handler: the field maps the cases build, the  *)
(* client method each case calls, the text it replies with, and the catch  *)
(* block.                                                                  *)
(***************************************************************************)
\* if (v) fields.k = w
SetIf(fields, v, k, w) == IF Truthy(v) THEN Assign(fields, One(k, w)) ELSE fields

\* names.map((name) => ({ name }))
NameRefs(names) == Arr([i \in 1..Len(names.a) |-> Obj(One("name", names.a[i]))])

NameRef(v) == Obj(One("name", v))

\* a fields literal that puts the project key under name
CreateIssueFields_ProjectName(p) ==
  Rec3("project", NameRef(Get(p, "projectKey")),
       "summary", Get(p, "summary"),
       "issuetype", NameRef(Get(p, "issueType")))

CreateIssueFields(p) ==
  LET f0 == Rec3("project", Obj(One("key", Get(p, "projectKey"))),
                 "summary", Get(p, "summary"),
                 "issuetype", NameRef(Get(p, "issueType")))
      f1 == Assign(f0, SpreadIf(Get(p, "description"), One("description", Get(p, "description"))))
      f2 == Assign(f1, SpreadIf(Get(p, "priority"), One("priority", NameRef(Get(p, "priority")))))
      f3 == Assign(f2, SpreadIf(Get(p, "assignee"), One("assignee", NameRef(Get(p, "assignee")))))
  IN Assign(f3, SpreadIf(Get(p, "labels"), One("labels", Get(p, "labels"))))

UpdateIssueFields(p) ==
  LET f0 == SpreadIf(Get(p, "summary"), One("summary", Get(p, "summary")))
      f1 == Assign(f0, SpreadIf(Get(p, "description"), One("description", Get(p, "description"))))
      f2 == Assign(f1, SpreadIf(Get(p, "priority"), One("priority", NameRef(Get(p, "priority")))))
      f3 == Assign(f2, SpreadIf(Get(p, "assignee"), One("assignee", NameRef(Get(p, "assignee")))))
  IN Assign(f3, SpreadIf(Get(p, "labels"), One("labels", Get(p, "labels"))))

\* the list-of-names fields shared by the two advanced cases
ListFields(fields, p) ==
  LET f1 == IF Truthy(Get(p, "components"))
            THEN Assign(fields, One("components", NameRefs(Get(p, "components")))) ELSE fields
      f2 == IF Truthy(Get(p, "fixVersions"))
            THEN Assign(f1, One("fixVersions", NameRefs(Get(p, "fixVersions")))) ELSE f1
  IN IF Truthy(Get(p, "affectsVersions"))
     THEN Assign(f2, One("versions", NameRefs(Get(p, "affectsVersions")))) ELSE f2

\* a merge in which the named fields win over the overlay
MergeCustomFields_NamedWin(fields, customFields) ==
  IF Truthy(customFields) THEN Assign(customFields.o, fields) ELSE fields

\* if (customFields) Object.assign(fields, customFields)
MergeCustomFields(fields, customFields) ==
  IF Truthy(customFields) THEN Assign(fields, customFields.o) ELSE fields

CreateIssueAdvancedFields(p) ==
  LET f0 == Rec3("project", Obj(One("key", Get(p, "projectKey"))),
                 "summary", Get(p, "summary"),
                 "issuetype", NameRef(Get(p, "issueType")))
      f1 == SetIf(f0, Get(p, "description"), "description", Get(p, "description"))
      f2 == SetIf(f1, Get(p, "priority"), "priority", NameRef(Get(p, "priority")))
      f3 == SetIf(f2, Get(p, "assignee"), "assignee", NameRef(Get(p, "assignee")))
      f4 == SetIf(f3, Get(p, "reporter"), "reporter", NameRef(Get(p, "reporter")))
      f5 == SetIf(f4, Get(p, "labels"), "labels", Get(p, "labels"))
  IN MergeCustomFields(ListFields(f5, p), Get(p, "customFields"))

UpdateIssueAdvancedFields(p) ==
  LET f0 == SetIf(NoProps, Get(p, "summary"), "summary", Get(p, "summary"))
      f1 == SetIf(f0, Get(p, "description"), "description", Get(p, "description"))
      f2 == SetIf(f1, Get(p, "priority"), "priority", NameRef(Get(p, "priority")))
      f3 == SetIf(f2, Get(p, "assignee"), "assignee", NameRef(Get(p, "assignee")))
      f4 == SetIf(f3, Get(p, "labels"), "labels", Get(p, "labels"))
  IN MergeCustomFields(ListFields(f4, p), Get(p, "customFields"))

\* the client method a case of the switch calls with the parsed arguments p
ToolOp(name, p) ==
  CASE name = "jira_get_issue" -> Op("getIssue", <<Get(p, "issueKey"), Get(p, "expand")>>)
    [] name = "jira_search_issues" ->
         Op("searchIssues",
            <<Get(p, "jql"), Get(p, "startAt"), Get(p, "maxResults"), Get(p, "fields")>>)
    [] name = "jira_create_issue" ->
         Op("createIssue", <<Obj(One("fields", Obj(CreateIssueFields(p))))>>)
    [] name = "jira_update_issue" ->
         Op("updateIssue", <<Get(p, "issueKey"), Obj(One("fields", Obj(UpdateIssueFields(p))))>>)
    [] name = "jira_delete_issue" -> Op("deleteIssue", <<Get(p, "issueKey")>>)
    [] name = "jira_assign_issue" -> Op("assignIssue", <<Get(p, "issueKey"), Get(p, "assignee")>>)
    [] name = "jira_get_comments" -> Op("getComments", <<Get(p, "issueKey")>>)
    [] name = "jira_add_comment" -> Op("addComment", <<Get(p, "issueKey"), Get(p, "body")>>)
    [] name = "jira_get_transitions" -> Op("getTransitions", <<Get(p, "issueKey")>>)
    [] name = "jira_transition_issue" ->
         Op("transitionIssue", <<Get(p, "issueKey"), Get(p, "transitionId"), Get(p, "comment")>>)
    [] name = "jira_get_projects" -> Op("getProjects", <<>>)
    [] name = "jira_get_project" -> Op("getProject", <<Get(p, "projectKey")>>)
    [] name = "jira_search_users" -> Op("searchUsers", <<Get(p, "query")>>)
    [] name = "jira_get_current_user" -> Op("getCurrentUser", <<>>)
    [] name = "jira_link_issues" ->
         Op("linkIssues", <<Get(p, "inwardIssue"), Get(p, "outwardIssue"), Get(p, "linkType")>>)
    [] name = "jira_add_watcher" -> Op("addWatcher", <<Get(p, "issueKey"), Get(p, "username")>>)
    [] name = "jira_get_priorities" -> Op("getPriorities", <<>>)
    [] name = "jira_get_statuses" -> Op("getStatuses", <<>>)
    [] name = "jira_get_create_meta" ->
         Op("getCreateMeta", <<Get(p, "projectKey"), Get(p, "issueType")>>)
    [] name = "jira_get_edit_meta" -> Op("getEditMeta", <<Get(p, "issueKey")>>)
    [] name = "jira_get_project_versions" -> Op("getProjectVersions", <<Get(p, "projectKey")>>)
    [] name = "jira_get_project_components" ->
         Op("getProjectComponents", <<Get(p, "projectKey")>>)
    [] name = "jira_get_fields" -> Op("getFields", <<>>)
    [] name = "jira_get_field_options" ->
         Op("getFieldOptions", <<Get(p, "projectKey"), Get(p, "issueType"), Get(p, "fieldKey")>>)
    [] name = "jira_get_issue_link_types" -> Op("getIssueLinkTypes", <<>>)
    [] name = "jira_create_issue_advanced" ->
         Op("createIssueRaw", <<Obj(CreateIssueAdvancedFields(p))>>)
    [] name = "jira_update_issue_advanced" ->
         Op("updateIssueRaw", <<Get(p, "issueKey"), Obj(UpdateIssueAdvancedFields(p))>>)

\* the text of a template literal: the template and the values of its holes
Template(fmt, holes) == [kind |-> "template", fmt |-> fmt, holes |-> holes]

ActionTools ==
  {"jira_update_issue", "jira_update_issue_advanced", "jira_delete_issue",
   "jira_assign_issue", "jira_link_issues", "jira_add_watcher", "jira_transition_issue"}

Pick(v, keys) == Obj([k \in keys |-> Get(v, k)])

\* a text block that keeps only the key of what the client returned
ToolText_KeyOnly(name, p, result) ==
  IF name \in ActionTools
  THEN Template("Issue {issueKey} updated successfully", <<Get(p, "issueKey")>>)
  ELSE JSONStringify(Pick(result, {"key"}))

\* the text block of a successful case; result is what the client returned
ToolText(name, p, result) ==
  CASE name \in {"jira_update_issue", "jira_update_issue_advanced"} ->
         Template("Issue {issueKey} updated successfully", <<Get(p, "issueKey")>>)
    [] name = "jira_delete_issue" ->
         Template("Issue {issueKey} deleted successfully", <<Get(p, "issueKey")>>)
    [] name = "jira_assign_issue" ->
         (IF Truthy(Get(p, "assignee"))
          THEN Template("Issue {issueKey} assigned to {assignee}",
                        <<Get(p, "issueKey"), Get(p, "assignee")>>)
          ELSE Template("Issue {issueKey} unassigned", <<Get(p, "issueKey")>>))
    [] name = "jira_transition_issue" ->
         Template("Issue {issueKey} transitioned successfully", <<Get(p, "issueKey")>>)
    [] name = "jira_link_issues" ->
         Template("Issues {inwardIssue} and {outwardIssue} linked with type \"{linkType}\"",
                  <<Get(p, "inwardIssue"), Get(p, "outwardIssue"), Get(p, "linkType")>>)
    [] name = "jira_add_watcher" ->
         Template("Added {username} as watcher to {issueKey}",
                  <<Get(p, "username"), Get(p, "issueKey")>>)
    [] OTHER -> JSONStringify(result)

ToolResult(text) == [k |-> "result", content |-> <<[type |-> "text", text |-> text]>>]
Failure(e) == [k |-> "error", code |-> e.code, msg |-> e.msg]

\* a catch block that does not tell a ZodError from any other error
CatchToolError_NoZod(name, error) ==
  IF error.cls = "McpError" THEN error
  ELSE McpError("InternalError",
                [fmt |-> "Error executing {name}: {message}", name |-> name, message |-> error])

\* a catch block that wraps every error, an McpError included
CatchToolError_WrapAll(name, error) ==
  IF error.cls = "ZodError" THEN
    McpError("InvalidParams",
             [fmt |-> "Invalid parameters: {messages}", messages |-> error.issues])
  ELSE McpError("InternalError",
                [fmt |-> "Error executing {name}: {message}", name |-> name, message |-> error.msg])

\* a catch block that reports an internal error without the original message
CatchToolError_NoMessage(name, error) ==
  IF error.cls = "ZodError" THEN
    McpError("InvalidParams",
             [fmt |-> "Invalid parameters: {messages}", messages |-> error.issues])
  ELSE IF error.cls = "McpError" THEN error
  ELSE McpError("InternalError", [fmt |-> "Error executing {name}", name |-> name])

\* a catch block that reports the first violation only
CatchToolError_FirstOnly(name, error) ==
  IF error.cls = "ZodError" THEN
    McpError("InvalidParams",
             [fmt |-> "Invalid parameters: {messages}", messages |-> <<error.issues[1]>>])
  ELSE IF error.cls = "McpError" THEN error
  ELSE McpError("InternalError",
                [fmt |-> "Error executing {name}: {message}", name |-> name, message |-> error.msg])

\* the catch block of the tool handler
CatchToolError(name, error) ==
  IF error.cls = "ZodError" THEN
    McpError("InvalidParams",
             [fmt |-> "Invalid parameters: {messages}", messages |-> error.issues])
  ELSE IF error.cls = "McpError" THEN error
  ELSE McpError("InternalError",
                [fmt |-> "Error executing {name}: {message}", name |-> name, message |-> error.msg])

\* an action tool that confirms although its client call has thrown
ToolReturn_ConfirmAnyway(name, p, run) ==
  IF run.k = "value" THEN Value(ToolResult(ToolText(name, p, run.v)))
  ELSE IF run.k = "throw" /\ name \in ActionTools
    THEN Value(ToolResult(ToolText(name, p, Undef)))
  ELSE run

\* return { content: [...] } once the awaited client call has returned
ToolReturn(name, p, run) ==
  IF run.k = "value" THEN Value(ToolResult(ToolText(name, p, run.v))) ELSE run

\* a case of the switch: parse first, then the client call
ToolCase(name, parsed, log) ==
  IF parsed.k = "throw" THEN parsed
  ELSE ToolReturn(name, parsed.v, ClientRun(ToolOp(name, parsed.v), log))

\* the try block: the switch on the tool name
ToolTry(name, args, log) ==
  IF name \notin HandledTools THEN
    Throw(McpError("MethodNotFound", [fmt |-> "Unknown tool: {name}", name |-> name]))
  ELSE ToolCase(name,
                IF name \in NoSchemaTools THEN Value(Obj(NoProps))
                ELSE SchemaParse(ToolSchema(name), args),
                log)

\* what the handler does with the outcome of its try block
ToolOutcome(name, try) ==
  CASE try.k = "throw" -> [k |-> "reply", reply |-> Failure(CatchToolError(name, try.e))]
    [] try.k = "value" -> [k |-> "reply", reply |-> try.v]
    [] OTHER -> try

CallTool(name, args, log) == ToolOutcome(name, ToolTry(name, args, log))

(***************************************************************************)
(* The resource provider.  A URI is the sequence of the pieces of its      *)
(* string: a fixed URI is one piece, a per-project URI is the prefix       *)
(* jira://project/ followed by the key.                                    *)
(***************************************************************************)
JIRA_BASE_URL == "https://jira.example.com/"
ProjectCap == 20

\* the keys of the projects of a remote that has many
ManyKeys ==
  <<"P01", "P02", "P03", "P04", "P05", "P06", "P07", "P08", "P09", "P10", "P11",
    "P12", "P13", "P14", "P15", "P16", "P17", "P18", "P19", "P20", "P21", "P22">>

Digit(n) == <<"0", "1", "2", "3", "4", "5", "6", "7", "8", "9">>[n + 1]

\* the characters of the strings that occur as project keys
Chars(s) ==
  CASE s = "PROJ" -> <<"P", "R", "O", "J">>
    [] s = "A1" -> <<"A", "1">>
    [] s = "DEV_OPS" -> <<"D", "E", "V", "_", "O", "P", "S">>
    [] s = "proj" -> <<"p", "r", "o", "j">>
    [] s = "A/B" -> <<"A", "/", "B">>
    [] s = "" -> <<>>
    [] \E i \in 1..Len(ManyKeys) : s = ManyKeys[i] ->
         LET i == CHOOSE j \in 1..Len(ManyKeys) : s = ManyKeys[j]
         IN <<"P", Digit(i \div 10), Digit(i % 10)>>

UpperOrDigit ==
  {"A", "B", "C", "D", "E", "F", "G", "H", "I", "J", "K", "L", "M", "N", "O", "P", "Q",
   "R", "S", "T", "U", "V", "W", "X", "Y", "Z", "0", "1", "2", "3", "4", "5", "6", "7",
   "8", "9"}

\* uri.match(/^jira:\/\/project\/([A-Z0-9]+)$/)
ProjectMatch(uri) ==
  /\ Len(uri) = 2
  /\ uri[1] = "jira://project/"
  /\ Len(Chars(uri[2])) >= 1
  /\ \A i \in 1..Len(Chars(uri[2])) : Chars(uri[2])[i] \in UpperOrDigit

Resource(uri, name, description) ==
  [uri |-> uri, name |-> name, description |-> description, mimeType |-> "application/json"]

ConfigOnly ==
  <<Resource(<<"jira://config">>, Template("Jira Configuration", <<>>),
             Template("Current Jira server configuration", <<>>))>>

\* the resource list built when both lookups have returned, top being the
\* projects that get a resource of their own
ResourcesFor(top, projects, currentUser) ==
     <<Resource(<<"jira://config">>, Template("Jira Configuration", <<>>),
                Template("Current Jira server configuration and connection info", <<>>)),
       Resource(<<"jira://current-user">>, Template("Current User", <<>>),
                Template("Currently authenticated Jira user", <<>>)),
       Resource(<<"jira://priorities">>, Template("Priorities", <<>>),
                Template("All available issue priorities", <<>>)),
       Resource(<<"jira://statuses">>, Template("Statuses", <<>>),
                Template("All available issue statuses", <<>>)),
       Resource(<<"jira://fields">>, Template("Fields", <<>>),
                Template("All available fields including custom fields", <<>>)),
       Resource(<<"jira://link-types">>, Template("Issue Link Types", <<>>),
                Template("All available issue link types", <<>>)),
       Resource(<<"jira://projects">>, Template("All Projects", <<>>),
                Template("List of all {length} Jira projects", <<Num(Len(projects.a))>>))>>
     \o [i \in 1..Len(top) |->
           Resource(<<"jira://project/", Get(top[i], "key").s>>,
                    Template("Project: {key}", <<Get(top[i], "key")>>),
                    Template("{name} - versions, components, and issue types",
                             <<Get(top[i], "name")>>))]
     \o <<Resource(<<"jira://my-issues">>, Template("My Issues", <<>>),
                   Template("Issues assigned to {displayName}",
                            <<Get(currentUser, "displayName")>>))>>

\* a resource list with a resource for every project, however many
AllResources_NoCap(projects, currentUser) ==
  ResourcesFor(projects.a, projects, currentUser)

\* projects.slice(0, 20)
AllResources(projects, currentUser) ==
  ResourcesFor(SubSeq(projects.a, 1, IF Len(projects.a) < ProjectCap THEN Len(projects.a)
                                     ELSE ProjectCap),
               projects, currentUser)

Reply(r) == [k |-> "reply", reply |-> r]
ResourceList(resources) == [k |-> "result", resources |-> resources]

\* the ListResourcesRequestSchema handler: two lookups one after the other,
\* and a catch that answers with the static resource alone
\* an enumeration without the catch: a failed lookup is reported
Listed_NoCatch(projects, currentUser) ==
  IF currentUser.k = "throw" THEN
    Reply(Failure(McpError("InternalError", currentUser.e.msg)))
  ELSE IF projects.v.t # "array" \/ currentUser.v.t # "object"
    THEN Reply(ResourceList(ConfigOnly))
  ELSE Reply(ResourceList(AllResources(projects.v, currentUser.v)))

Listed(projects, currentUser) ==
  IF currentUser.k = "throw" THEN Reply(ResourceList(ConfigOnly))
  ELSE IF projects.v.t # "array" \/ currentUser.v.t # "object"
    THEN Reply(ResourceList(ConfigOnly))
  ELSE Reply(ResourceList(AllResources(projects.v, currentUser.v)))

\* an enumeration that answers without asking for the current user
ListAfterProjects_NoUser(projects, log) ==
  IF projects.k = "throw" THEN Reply(ResourceList(ConfigOnly))
  ELSE Listed(projects, Value(Obj(NoProps)))

\* the enumeration once getProjects has settled: getCurrentUser is awaited next
ListAfterProjects(projects, log) ==
  IF projects.k = "throw" THEN Reply(ResourceList(ConfigOnly))
  ELSE IF Len(log) = 1 THEN Send(<<getCurrentUser>>)
  ELSE IF log[2].resp = NoResp THEN Wait
  ELSE Listed(projects, request(log[2].resp))

ListResources(log) ==
  IF Len(log) = 0 THEN Send(<<getProjects>>)
  ELSE IF log[1].resp = NoResp THEN Wait
  ELSE ListAfterProjects(request(log[1].resp), log)

(***************************************************************************)
(* The ReadResourceRequestSchema handler.                                  *)
(***************************************************************************)
Contents(uri, text) ==
  [k |-> "result",
   contents |-> <<[uri |-> uri, mimeType |-> "application/json", text |-> text]>>]


MapPick(arr, keys) == Arr([i \in 1..Len(arr.a) |-> Pick(arr.a[i], keys)])

FilterCustom(arr, want) ==
  LET Keep(f) == Truthy(Get(f, "custom")) = want IN Arr(SelectSeq(arr.a, Keep))

\* a configuration snapshot that shows the access token
ConfigSnapshot_WithToken ==
  Obj(Assign(Rec3("baseUrl", Str(JIRA_BASE_URL), "serverInfo", Str("Self-hosted Jira Server"),
                  "authenticated", Bool(TRUE)),
             One("token", Str(PAT))))

\* const config = { baseUrl: JIRA_BASE_URL, serverInfo, authenticated }
ConfigSnapshot ==
  Obj(Rec3("baseUrl", Str(JIRA_BASE_URL), "serverInfo", Str("Self-hosted Jira Server"),
           "authenticated", Bool(TRUE)))

MyIssuesJql == Str("assignee = currentUser() ORDER BY updated DESC")

\* the client method a fixed identifier reads
FixedOp(uri) ==
  CASE uri = <<"jira://current-user">> -> Op("getCurrentUser", <<>>)
    [] uri = <<"jira://priorities">> -> Op("getPriorities", <<>>)
    [] uri = <<"jira://statuses">> -> Op("getStatuses", <<>>)
    [] uri = <<"jira://fields">> -> Op("getFields", <<>>)
    [] uri = <<"jira://link-types">> -> Op("getIssueLinkTypes", <<>>)
    [] uri = <<"jira://projects">> -> Op("getProjects", <<>>)
    [] uri = <<"jira://my-issues">> -> Op("searchIssues", <<MyIssuesJql, Num(0), Num(50), Undef>>)

FixedUris ==
  {<<"jira://current-user">>, <<"jira://priorities">>, <<"jira://statuses">>,
   <<"jira://fields">>, <<"jira://link-types">>, <<"jira://projects">>,
   <<"jira://my-issues">>}

MyIssue(i) ==
  LET fields == Get(i, "fields")
  IN Obj(Assign(Rec3("key", Get(i, "key"), "summary", Get(fields, "summary"),
                     "status", Get(Get(fields, "status"), "name")),
                Rec2("priority", Get(Get(fields, "priority"), "name"),
                     "updated", Get(fields, "updated"))))

\* the snapshot a fixed identifier builds from what its client method returned
FixedSnapshot(uri, v) ==
  CASE uri = <<"jira://fields">> ->
         (IF v.t # "array" THEN Throw(TypeError)
          ELSE Value(Obj(Rec2("system", FilterCustom(v, FALSE), "custom", FilterCustom(v, TRUE)))))
    [] uri = <<"jira://projects">> ->
         (IF v.t # "array" THEN Throw(TypeError)
          ELSE Value(MapPick(v, {"key", "name", "projectTypeKey"})))
    [] uri = <<"jira://my-issues">> ->
         (IF Get(v, "issues").t # "array" THEN Throw(TypeError)
          ELSE Value(Obj(Rec2("total", Get(v, "total"),
                              "issues",
                              Arr([i \in 1..Len(Get(v, "issues").a) |->
                                     MyIssue(Get(v, "issues").a[i])])))))
    [] OTHER -> Value(v)

ProjectRequests(projectKey) ==
  <<getProject(projectKey), getProjectVersions(projectKey),
    getProjectComponents(projectKey), getCreateMetaIssueTypes(projectKey)>>

ProjectInfo(project, versions, components, issueTypes) ==
  IF \/ project.t # "object" \/ versions.t # "array" \/ components.t # "array"
     \/ Get(issueTypes, "values").t # "array"
  THEN Throw(TypeError)
  ELSE Value(Obj(Assign(
         Rec3("key", Get(project, "key"), "name", Get(project, "name"),
              "lead", Get(project, "lead")),
         Rec3("versions", MapPick(versions, {"name", "released", "archived"}),
              "components", MapPick(components, {"name", "description"}),
              "issueTypes", MapPick(Get(issueTypes, "values"), {"id", "name", "subtask"})))))

\* await Promise.all([...four client calls...]) and the snapshot built from it
\* return { contents: [...] } with the serialized snapshot
ReadReturn(uri, snap) ==
  IF snap.k = "throw" THEN snap ELSE Value(Contents(uri, JSONStringify(snap.v)))

\* the request answered k-th
Arrived(log, k) == CHOOSE i \in 1..Len(log) : log[i].at = k

\* a read that takes the four results in the order the responses arrived
ProjectRead_ByArrival(uri, log) ==
  LET r(i) == request(log[i].resp)
      failed == {i \in 1..Len(log) : log[i].resp # NoResp /\ r(i).k = "throw"}
  IN IF Len(log) = 0 THEN Send(ProjectRequests(Str(uri[2])))
     ELSE IF failed # {} THEN r(CHOOSE i \in failed : TRUE)
     ELSE IF \E i \in 1..Len(log) : log[i].resp = NoResp THEN Wait
     ELSE ReadReturn(uri, ProjectInfo(r(Arrived(log, 1)).v, r(Arrived(log, 2)).v,
                                      r(Arrived(log, 3)).v, r(Arrived(log, 4)).v))

ProjectRead(uri, log) ==
  LET r(i) == request(log[i].resp)
      failed == {i \in 1..Len(log) : log[i].resp # NoResp /\ r(i).k = "throw"}
  IN IF Len(log) = 0 THEN Send(ProjectRequests(Str(uri[2])))
     ELSE IF failed # {} THEN r(CHOOSE i \in failed : TRUE)
     ELSE IF \E i \in 1..Len(log) : log[i].resp = NoResp THEN Wait
     ELSE ReadReturn(uri, ProjectInfo(r(1).v, r(2).v, r(3).v, r(4).v))

\* a fixed identifier once its client call has settled
FixedRead(uri, run) ==
  IF run.k = "value" THEN ReadReturn(uri, FixedSnapshot(uri, run.v)) ELSE run

\* the try block of the read handler
ReadTry(uri, log) ==
  IF uri = <<"jira://config">> THEN Value(Contents(uri, JSONStringify(ConfigSnapshot)))
  ELSE IF uri \in FixedUris THEN FixedRead(uri, SimpleRun(FixedOp(uri), log))
  ELSE IF ProjectMatch(uri) THEN ProjectRead(uri, log)
  ELSE Throw(McpError("InvalidRequest", [fmt |-> "Unknown resource: {uri}", uri |-> uri]))

\* a catch block that wraps every error, an McpError included
CatchReadError_WrapAll(uri, error) ==
  McpError("InternalError",
           [fmt |-> "Error reading resource {uri}: {message}",
            uri |-> uri, message |-> error.msg])

\* the catch block of the read handler
CatchReadError(uri, error) ==
  IF error.cls = "McpError" THEN error
  ELSE McpError("InternalError",
                [fmt |-> "Error reading resource {uri}: {message}",
                 uri |-> uri, message |-> error.msg])

\* what the read handler does with the outcome of its try block
ReadOutcome(uri, try) ==
  CASE try.k = "throw" -> Reply(Failure(CatchReadError(uri, try.e)))
    [] try.k = "value" -> Reply(try.v)
    [] OTHER -> try

ReadResource(uri, log) == ReadOutcome(uri, ReadTry(uri, log))

\* a client method called directly: what its promise settles with
Settled(run) ==
  CASE run.k = "value" -> Reply([k |-> "returned", v |-> run.v])
    [] run.k = "throw" -> Reply([k |-> "threw", e |-> run.e])
    [] OTHER -> run

ClientCall(op, log) == Settled(ClientRun(op, log))

(***************************************************************************)
(* The callers' inputs: tool names and argument bags.  An argument bag is  *)
(* the canonical valid call of a tool changed at up to MaxArgEdits keys    *)
(* (a key removed, emptied, given another value or a value of the wrong    *)
(* type).                                                                  *)
(***************************************************************************)
UnknownTools == {"jira_bogus", "getIssue"}
ToolNames == ListedTools \cup UnknownTools

CanonicalValue(k) ==
  CASE k = "issueKey" -> Str("PROJ-1")
    [] k = "projectKey" -> Str("PROJ")
    [] k = "summary" -> Str("S")
    [] k = "issueType" -> Str("Bug")
    [] k = "jql" -> Str("project = PROJ")
    [] k = "body" -> Str("hello")
    [] k = "transitionId" -> Str("31")
    [] k = "query" -> Str("al ice")
    [] k = "inwardIssue" -> Str("PROJ-1")
    [] k = "outwardIssue" -> Str("PROJ-2")
    [] k = "linkType" -> Str("Blocks")
    [] k = "username" -> Str("alice")
    [] k = "fieldKey" -> Str("priority")
    [] k = "assignee" -> Str("alice")

Canonical(f) == IF f.opt THEN Undef ELSE CanonicalValue(f.k)

CustomKeys == {"summary", "components", "versions", "issueKey", "customfield_10001", "project"}
Overlay == Str("OV")
CustomMaps ==
  {[k \in K |-> Overlay] : K \in {S \in SUBSET CustomKeys : Cardinality(S) <= MaxCustomKeys}}
  \cup {One("priority", Null)}

Alternatives(f) ==
  (CASE f.ty = "string" /\ f.k = "issueType" ->
          {Undef, Str(""), Str("bug"), Str("Story"), Num(7)}
     [] f.ty = "string" /\ f.nullable -> {Undef, Null, Str(""), Num(7)}
     [] f.ty = "string" /\ f.opt -> {Str(""), Str("x"), Num(7)}
     [] f.ty = "string" -> {Undef, Str(""), Num(7)}
     [] f.ty = "number" -> {Num(10), Str("10")}
     [] f.ty = "strings" -> {Arr(<<>>), Arr(<<Str("A"), Str("B")>>), Arr(<<Num(7)>>)}
     [] f.ty = "record" -> {Obj(m) : m \in CustomMaps} \cup {Str("x")})
  \ {Canonical(f)}

WithKey(m, k, v) == IF v.t = "undefined" THEN m ELSE Assign(m, One(k, v))

RECURSIVE Bags(_, _, _)
Bags(schema, i, edits) ==
  IF i > Len(schema) THEN {NoProps}
  ELSE {WithKey(m, schema[i].k, Canonical(schema[i])) : m \in Bags(schema, i + 1, edits)}
       \cup (IF edits = 0 THEN {}
             ELSE {WithKey(m, schema[i].k, v) :
                     m \in Bags(schema, i + 1, edits - 1), v \in Alternatives(schema[i])})

ArgBags(name) ==
  IF name \in SchemaTools
  THEN {Obj(m) : m \in Bags(ToolSchema(name), 1, MaxArgEdits)} \cup {Undef}
  ELSE {Undef, Obj(NoProps), Obj(One("issueKey", Num(7)))}

ReadUris ==
  {<<"jira://config">>} \cup FixedUris
  \cup {<<"jira://project/", k>> : k \in {"PROJ", "A1", "DEV_OPS", "proj", "A/B", ""}}
  \cup {<<"jira://bogus">>, <<"jira://Config">>, <<"jira://project">>, <<"">>}

\* header sets a call of request may give of its own
CallHeaders ==
  {One("Accept", Str("text/plain")), One("Authorization", Str("Basic dXNlcg==")),
   One("X-Atlassian-Token", Str("no-check")),
   Assign(One("Content-Type", Str("text/plain")), One("Accept", Str("*/*")))}

ClientOps ==
  LET K == Str("PROJ-1")
      P == Str("PROJ")
  IN {Op("getIssue", <<K, Undef>>), Op("getIssue", <<K, Strs(<<"changelog", "names">>)>>),
      Op("createIssue", <<Obj(One("fields", Obj(One("summary", Str("S")))))>>),
      Op("updateIssue", <<K, Obj(One("fields", Obj(One("summary", Str("S")))))>>),
      Op("deleteIssue", <<K>>),
      Op("assignIssue", <<K, Null>>), Op("assignIssue", <<K, Str("alice")>>),
      Op("searchIssues", <<Str("project = PROJ"), Undef, Undef, Undef>>),
      Op("getProjects", <<>>), Op("getProject", <<P>>),
      Op("getComments", <<K>>), Op("addComment", <<K, Str("hello")>>),
      Op("updateComment", <<K, Str("10"), Str("hello")>>),
      Op("deleteComment", <<K, Str("10")>>),
      Op("getTransitions", <<K>>), Op("transitionIssue", <<K, Str("31"), Undef>>),
      Op("searchUsers", <<Str("al ice")>>), Op("getCurrentUser", <<>>),
      Op("addWatcher", <<K, Str("alice")>>), Op("removeWatcher", <<K, Str("al ice")>>),
      Op("linkIssues", <<K, Str("PROJ-2"), Str("Blocks")>>),
      Op("getIssueTypesForProject", <<P>>),
      Op("getPriorities", <<>>), Op("getStatuses", <<>>),
      Op("getCreateMetaIssueTypes", <<P>>), Op("getCreateMetaFields", <<P, Str("1")>>),
      Op("getEditMeta", <<K>>), Op("getProjectVersions", <<P>>),
      Op("getProjectComponents", <<P>>), Op("getFields", <<>>),
      Op("getIssueLinkTypes", <<>>),
      Op("createIssueRaw", <<Obj(One("summary", Str("S")))>>),
      Op("updateIssueRaw", <<K, Obj(One("summary", Str("S")))>>),
      Op("getCreateMeta", <<P, Undef>>), Op("getCreateMeta", <<P, Str("TASK")>>),
      Op("getCreateMeta", <<P, Str("")>>),
      Op("getFieldOptions", <<P, Str("Story"), Str("priority")>>),
      Op("getFieldOptions", <<P, Str("bug"), Str("labels")>>)}
     \cup {Op("request", <<Str("/myself"), Obj(One("headers", Obj(h)))>>) : h \in CallHeaders}

(***************************************************************************)
(* The remote tracker: the responses it may give to a request.             *)
(***************************************************************************)
SeqsUpTo(S, n) == UNION {[1..k -> S] : k \in 0..n}

IssueType(id, name) ==
  Obj(Assign(Rec2("id", Str(id), "name", Str(name)), One("subtask", Bool(FALSE))))
IssueTypes == {IssueType("1", "Bug"), IssueType("2", "Task")}

Page(values) == Obj(Rec2("values", Arr(values), "total", Num(Len(values))))

FieldSummary ==
  Obj(Rec3("fieldId", Str("summary"), "name", Str("Summary"), "required", Bool(TRUE)))
FieldPriority ==
  Obj(Assign(Rec3("fieldId", Str("priority"), "name", Str("Priority"), "required", Bool(FALSE)),
             One("allowedValues", Arr(<<Obj(Rec2("id", Str("1"), "name", Str("High")))>>))))
FieldLabels ==
  Obj(Assign(Rec3("fieldId", Str("labels"), "name", Str("Labels"), "required", Bool(FALSE)),
             One("allowedValues", Arr(<<>>))))

Project(key, name) == Obj(Rec3("key", Str(key), "name", Str(name), "projectTypeKey", Str("software")))
Projects == {Project("PROJ", "Demo"), Project("DEV_OPS", "Ops")}

\* a remote with as many projects as the enumeration keeps, and with one more
ManyProjects(n) == Arr([i \in 1..n |-> Project(ManyKeys[i], "Demo")])

User == Obj(Rec2("name", Str("alice"), "displayName", Str("Alice")))

Issue ==
  Obj(Rec2("key", Str("PROJ-1"),
           "fields", Obj(Rec3("summary", Str("S"), "status", Obj(One("name", Str("Open"))),
                              "updated", Str("2024-01-01")))))

RemoteValues(req) ==
  LET e == req.endpoint
  IN CASE e = <<"/project">> ->
            {Arr(ps) : ps \in SeqsUpTo(Projects, MaxListLen)}
            \cup {ManyProjects(ProjectCap), ManyProjects(ProjectCap + 1)}
       [] e[1] = "/issue/createmeta/" /\ Len(e) = 3 ->
            {Page(ts) : ts \in SeqsUpTo(IssueTypes, MaxListLen)}
       [] e[1] = "/issue/createmeta/" /\ Len(e) = 5 ->
            {Page(<<>>), Page(<<FieldPriority>>), Page(<<FieldSummary, FieldLabels>>)}
       [] e = <<"/myself">> -> {User, Null}
       [] e = <<"/field">> ->
            {Arr(<<Obj(Rec2("id", Str("summary"), "custom", Bool(FALSE))),
                   Obj(Rec2("id", Str("customfield_10001"), "custom", Bool(TRUE)))>>)}
       [] e = <<"/search">> -> {Obj(Rec2("total", Num(5), "issues", Arr(<<Issue, Issue>>)))}
       [] e[1] = "/project/" /\ Len(e) = 2 ->
            {Obj(Assign(Project(e[2], "Demo").o,
                        One("issueTypes", Arr(<<IssueType("1", "Bug")>>))))}
       [] e[1] = "/project/" /\ Len(e) = 3 -> {Arr(<<Obj(One("name", Str("1.0")))>>)}
       [] OTHER -> {Issue}

ErrorBody == JsonText(Obj(One("errorMessages", Arr(<<Str("Issue Does Not Exist")>>))))

Responses(req) ==
  {Response(200, JsonText(v)) : v \in RemoteValues(req)}
  \cup {Response(200, EmptyText), Response(201, EmptyText), Response(204, EmptyText),
        Response(404, ErrorBody), Response(500, GarbageText)}

(***************************************************************************)
(* The state: the inbound call being served, where its handler stands, the *)
(* HTTP requests it has issued so far with their responses, and its reply. *)
(* The server keeps nothing from one call to the next.                     *)
(***************************************************************************)
VARIABLES pc, call, log, reply, client, prev, store, made, slots

vars == <<pc, call, log, reply, client, prev, store, made, slots>>

\* the state of the storing tracker, which only StoreSpec uses, and the
\* calls in flight at once, which only ConcSpec uses
tracker == <<store, made, slots>>

single == <<pc, call, log, reply, prev, store, made>>

NoCall == [kind |-> "none"]
NoReply == [k |-> "none"]

Init ==
  /\ pc = "idle"
  /\ call = NoCall
  /\ log = <<>>
  /\ reply = NoReply
  /\ client = JiraClient([baseUrl |-> JIRA_BASE_URL, pat |-> PAT])
  /\ prev = "none"
  /\ store = <<>>
  /\ made = <<>>
  /\ slots = [s \in 1..MaxInFlight |->
               [pc |-> "idle", call |-> NoCall, log |-> <<>>, reply |-> NoReply]]

\* the handler of a call, run over the requests issued so far
Handler(c, lg) ==
  CASE c.kind = "tool" -> CallTool(c.name, c.args, lg)
    [] c.kind = "tools" -> Reply([k |-> "tools", tools |-> ListTools])
    [] c.kind = "list" -> ListResources(lg)
    [] c.kind = "read" -> ReadResource(c.uri, lg)
    [] c.kind = "client" -> ClientCall(c.op, lg)

\* the handler has run up to its next await (st sends or waits) or to its reply
Step(st, lg) ==
  CASE st.k = "send" ->
         /\ log' = lg \o [i \in 1..Len(st.reqs) |-> Entry(FetchCall(client, st.reqs[i]))]
         /\ pc' = "running"
         /\ reply' = NoReply
    [] st.k = "wait" ->
         /\ log' = lg
         /\ pc' = "running"
         /\ reply' = NoReply
    [] st.k = "reply" ->
         /\ log' = lg
         /\ pc' = "done"
         /\ reply' = st.reply

Advance(c, lg) == Step(Handler(c, lg), lg)

\* a tools/call request arrives
CallToolRequest ==
  /\ UNCHANGED tracker
  /\ client' = client
  /\ prev' = prev
  /\ pc = "idle"
  /\ \E name \in ToolNames : \E args \in ArgBags(name) :
       /\ call' = [kind |-> "tool", name |-> name, args |-> args]
       /\ Advance([kind |-> "tool", name |-> name, args |-> args], <<>>)

\* a tools/list request arrives
ListToolsRequest ==
  /\ UNCHANGED tracker
  /\ client' = client
  /\ prev' = prev
  /\ pc = "idle"
  /\ call' = [kind |-> "tools"]
  /\ Advance([kind |-> "tools"], <<>>)

\* a resources/list request arrives
ListResourcesRequest ==
  /\ UNCHANGED tracker
  /\ client' = client
  /\ prev' = prev
  /\ pc = "idle"
  /\ call' = [kind |-> "list"]
  /\ Advance([kind |-> "list"], <<>>)

\* a resources/read request arrives
ReadResourceRequest ==
  /\ UNCHANGED tracker
  /\ client' = client
  /\ prev' = prev
  /\ pc = "idle"
  /\ \E uri \in ReadUris :
       /\ call' = [kind |-> "read", uri |-> uri]
       /\ Advance([kind |-> "read", uri |-> uri], <<>>)

\* a method of the client is called directly
ClientInvoke ==
  /\ UNCHANGED tracker
  /\ client' = client
  /\ prev' = prev
  /\ pc = "idle"
  /\ \E op \in ClientOps :
       /\ call' = [kind |-> "client", op |-> op]
       /\ Advance([kind |-> "client", op |-> op], <<>>)

\* fetch resolves for one request in flight and the handler resumes
FetchResolves ==
  /\ UNCHANGED tracker
  /\ client' = client
  /\ prev' = prev
  /\ pc = "running"
  /\ \E i \in 1..Len(log) :
       /\ log[i].resp = NoResp
       /\ \E resp \in Responses(log[i].req) :
            /\ call' = call
            /\ Advance(call, Resolve(log, i, resp))

\* the reply leaves the server; nothing of the call is kept (prev records,
\* for the properties only, how the call ended)
Deliver ==
  /\ UNCHANGED tracker
  /\ client' = client
  /\ prev' = IF reply.k \in {"error", "threw"} THEN "failed" ELSE "ok"
  /\ pc = "done"
  /\ pc' = "idle"
  /\ call' = NoCall
  /\ log' = <<>>
  /\ reply' = NoReply

Next ==
  \/ CallToolRequest
  \/ ListToolsRequest
  \/ ListResourcesRequest
  \/ ReadResourceRequest
  \/ ClientInvoke
  \/ FetchResolves
  \/ Deliver

Spec == Init /\ [][Next]_vars

(***************************************************************************)
(* A tracker that stores what it is sent: POST /issue files the fields of  *)
(* the body under the next key and answers with that key, GET /issue/{key} *)
(* answers with the key and the stored fields.  store is the tracker's     *)
(* list of issues; made records, for the properties, each key a create     *)
(* call was answered with and the arguments of that call.                  *)
(***************************************************************************)
IssueKeyAt(n) == <<"PROJ-1", "PROJ-2", "PROJ-3", "PROJ-4">>[n]

StoredAt(st, key) == {i \in 1..Len(st) : IssueKeyAt(i) = key}

StoreRemote(st, req) ==
  IF req.method = "POST" /\ req.endpoint = <<"/issue">> /\ req.body.kind = "json" THEN
    [store |-> Append(st, Get(req.body.v, "fields")),
     resp |-> Response(201, JsonText(Obj(Rec2("id", Str("10000"),
                                              "key", Str(IssueKeyAt(Len(st) + 1))))))]
  ELSE IF req.method = "GET" /\ req.endpoint[1] = "/issue/"
            /\ StoredAt(st, req.endpoint[2]) # {} THEN
    [store |-> st,
     resp |-> Response(200, JsonText(Obj(Rec2(
                "key", Str(req.endpoint[2]),
                "fields", st[CHOOSE i \in StoredAt(st, req.endpoint[2]) : TRUE]))))]
  ELSE [store |-> st, resp |-> Response(404, ErrorBody)]

\* the argument bags of the create calls made against the storing tracker
CreateBags ==
  {Obj(WithKey(Rec3("projectKey", p, "summary", sm, "issueType", ty), "description", d)) :
     p \in {Str("PROJ"), Str("DEV")}, sm \in {Str("S"), Str("")},
     ty \in {Str("Bug"), Str("Task")}, d \in {Undef, Str("text")}}
  \cup {Obj(Rec2("projectKey", Str("PROJ"), "issueType", Str("Bug")))}

\* a jira_create_issue call arrives
StoreCreate ==
  /\ pc = "idle"
  /\ Len(store) < MaxIssues
  /\ UNCHANGED <<tracker, client, prev>>
  /\ \E args \in CreateBags :
       /\ call' = [kind |-> "tool", name |-> "jira_create_issue", args |-> args]
       /\ Advance([kind |-> "tool", name |-> "jira_create_issue", args |-> args], <<>>)

\* a jira_get_issue call arrives, for a key a create was answered with or
\* for a key the tracker never gave out
StoreGet ==
  /\ pc = "idle"
  /\ UNCHANGED <<tracker, client, prev>>
  /\ \E key \in {made[i].key : i \in 1..Len(made)} \cup {Str("PROJ-9")} :
       \E expand \in {Undef, Strs(<<"changelog">>)} :
         /\ call' = [kind |-> "tool", name |-> "jira_get_issue",
                     args |-> Obj(WithKey(One("issueKey", key), "expand", expand))]
         /\ Advance([kind |-> "tool", name |-> "jira_get_issue",
                     args |-> Obj(WithKey(One("issueKey", key), "expand", expand))], <<>>)

\* the storing tracker answers the request in flight
StoreResolves ==
  /\ pc = "running"
  /\ log[1].resp = NoResp
  /\ UNCHANGED <<made, client, prev, call, slots>>
  /\ store' = StoreRemote(store, log[1].req).store
  /\ Advance(call, Resolve(log, 1, StoreRemote(store, log[1].req).resp))

\* the reply leaves the server
StoreDeliver ==
  /\ pc = "done"
  /\ UNCHANGED <<store, client, slots>>
  /\ prev' = IF reply.k = "error" THEN "failed" ELSE "ok"
  /\ made' = IF call.name = "jira_create_issue" /\ reply.k = "result"
             THEN Append(made, [key |-> Get(reply.content[1].text.v, "key"),
                                args |-> call.args])
             ELSE made
  /\ pc' = "idle"
  /\ call' = NoCall
  /\ log' = <<>>
  /\ reply' = NoReply

StoreNext ==
  \/ StoreCreate
  \/ StoreGet
  \/ StoreResolves
  \/ StoreDeliver

StoreSpec == Init /\ [][StoreNext]_vars

(***************************************************************************)
(* Several calls in flight at once.  Every invocation of a handler has its *)
(* own locals (its slot); the invocations share the one jiraClient.  The   *)
(* responses of the calls arrive in any interleaving.                      *)
(***************************************************************************)
ConcCalls ==
  {[kind |-> "tool", name |-> "jira_get_issue", args |-> Obj(One("issueKey", Str("PROJ-1")))],
   [kind |-> "tool", name |-> "jira_get_issue", args |-> Obj(NoProps)],
   [kind |-> "tool", name |-> "jira_delete_issue", args |-> Obj(One("issueKey", Str("PROJ-2")))],
   [kind |-> "read", uri |-> <<"jira://bogus">>],
   [kind |-> "read", uri |-> <<"jira://priorities">>],
   [kind |-> "list"],
   [kind |-> "client",
    op |-> Op("request", <<Str("/myself"),
                           Obj(One("headers", Obj(One("Accept", Str("text/plain")))))>>)]}

ConcResponses(req) ==
  {Response(200, JsonText(CHOOSE v \in RemoteValues(req) : TRUE)), Response(500, GarbageText)}

\* a request that folds the headers of the call into the headers of the client
ClientAfter_MergeHeaders(c, reqs) ==
  IF Len(reqs) = 0 THEN c ELSE [c EXCEPT !.headers = Assign(c.headers, reqs[1].headers)]

\* the client after its request method has sent reqs: request assigns to
\* no field of the client
ClientAfter(c, reqs) == c

\* the slot of a call whose handler has run up to st
SlotStep(c, st, lg, cl) ==
  CASE st.k = "send" ->
         [pc |-> "running", call |-> c, reply |-> NoReply,
          log |-> lg \o [i \in 1..Len(st.reqs) |-> Entry(FetchCall(cl, st.reqs[i]))]]
    [] st.k = "wait" -> [pc |-> "running", call |-> c, reply |-> NoReply, log |-> lg]
    [] st.k = "reply" -> [pc |-> "done", call |-> c, reply |-> st.reply, log |-> lg]

ConcAdvance(s, c, st, lg) ==
  /\ slots' = [slots EXCEPT ![s] = SlotStep(c, st, lg, client)]
  /\ client' = ClientAfter(client, IF st.k = "send" THEN st.reqs ELSE <<>>)

\* a call arrives while others may be in flight
ConcArrive ==
  /\ UNCHANGED single
  /\ \E s \in 1..MaxInFlight : \E c \in ConcCalls :
       /\ slots[s].pc = "idle"
       /\ ConcAdvance(s, c, Handler(c, <<>>), <<>>)

\* fetch resolves for one request of one of the calls in flight
ConcResolves ==
  /\ UNCHANGED single
  /\ \E s \in 1..MaxInFlight : \E i \in 1..Len(slots[s].log) :
       /\ slots[s].pc = "running"
       /\ slots[s].log[i].resp = NoResp
       /\ \E resp \in ConcResponses(slots[s].log[i].req) :
            ConcAdvance(s, slots[s].call,
                        Handler(slots[s].call, Resolve(slots[s].log, i, resp)),
                        Resolve(slots[s].log, i, resp))

\* the reply of one call leaves the server
ConcDeliver ==
  /\ UNCHANGED single
  /\ client' = client
  /\ \E s \in 1..MaxInFlight :
       /\ slots[s].pc = "done"
       /\ slots' = [slots EXCEPT ![s] =
                      [pc |-> "idle", call |-> NoCall, log |-> <<>>, reply |-> NoReply]]

ConcNext ==
  \/ ConcArrive
  \/ ConcResolves
  \/ ConcDeliver

ConcSpec == Init /\ [][ConcNext]_vars

(***************************************************************************)
(* Servers started with the same JIRA_BASE_URL and different values of     *)
(* PAT: the token is read once, into the headers of jiraClient.            *)
(***************************************************************************)
OtherPAT == "0th3r-pat"
Pats == {PAT, OtherPAT}

ServerInit ==
  /\ pc = "idle"
  /\ call = NoCall
  /\ log = <<>>
  /\ reply = NoReply
  /\ \E pat \in Pats : client = JiraClient([baseUrl |-> JIRA_BASE_URL, pat |-> pat])
  /\ prev = "none"
  /\ store = <<>>
  /\ made = <<>>
  /\ slots = [s \in 1..MaxInFlight |->
               [pc |-> "idle", call |-> NoCall, log |-> <<>>, reply |-> NoReply]]

ServerSpec == ServerInit /\ [][Next]_vars

TypeOK ==
  /\ pc \in {"idle", "running", "done"}
  /\ (pc = "done") = (reply # NoReply)
  /\ (pc = "idle") = (call = NoCall)

(***************************************************************************)
(* Properties.                                                             *)
(***************************************************************************)
IsTool(names) == call.kind = "tool" /\ call.name \in names

Failed(code) == pc = "done" /\ reply.k = "error" /\ reply.code = code

\* a value fits a schema field
Fits(f, v) ==
  CASE v.t = "undefined" -> f.opt
    [] v.t = "null" -> f.nullable
    [] f.ty = "string" -> v.t = "string"
    [] f.ty = "number" -> v.t = "number"
    [] f.ty = "strings" -> v.t = "array" /\ \A i \in 1..Len(v.a) : v.a[i].t = "string"
    [] f.ty = "record" -> v.t = "object"

\* an argument bag fails the schema of a tool: it is no object, or a required
\* field is missing, or a field holds a value of the wrong type
FailsSchema(name, args) ==
  \/ args.t # "object"
  \/ \E i \in 1..Len(ToolSchema(name)) :
       ~Fits(ToolSchema(name)[i], Get(args, ToolSchema(name)[i].k))

\* C1: a call of a tool with a schema whose arguments fail the schema ends
\* in an invalid-parameters error, and no HTTP request has been issued
C1_ValidationBeforeNetwork ==
  (IsTool(SchemaTools) /\ FailsSchema(call.name, call.args))
    => (Failed("InvalidParams") /\ Len(log) = 0)

\* jira_get_issue without its required issueKey has been rejected
C1_Witness ==
  /\ IsTool({"jira_get_issue"})
  /\ call.args.t = "object"
  /\ Get(call.args, "issueKey") = Undef
  /\ Failed("InvalidParams")
  /\ Len(log) = 0

\* C2: a call of a name that is not a registered tool ends in the
\* method-not-found error, never in another error, and issues no request
C2_UnknownTool ==
  (call.kind = "tool" /\ call.name \notin ListedTools)
    => (Failed("MethodNotFound") /\ Len(log) = 0)

\* an unknown name called with arguments has been answered
C2_Witness ==
  /\ call.kind = "tool"
  /\ call.name = "jira_bogus"
  /\ call.args.t = "object"
  /\ Failed("MethodNotFound")

\* the fields map of the first request of the call, as it is on the wire
OutFields == log[1].req.body.v.o["fields"].o

UpdateTools == {"jira_update_issue", "jira_update_issue_advanced"}
AdvancedTools == {"jira_create_issue_advanced", "jira_update_issue_advanced"}

\* the optional named fields a caller supplied, under the key they are sent with
WireKey(k) == IF k = "affectsVersions" THEN "versions" ELSE k
OptionalKeys(name) ==
  {ToolSchema(name)[i].k : i \in {j \in 1..Len(ToolSchema(name)) : ToolSchema(name)[j].opt}}
    \ {"customFields"}
Supplied(name, args) == OptionalKeys(name) \cap DOMAIN args.o
CustomKeysOf(args) ==
  IF Get(args, "customFields").t = "object" THEN DOMAIN Get(args, "customFields").o ELSE {}

\* C3 as stated: the keys of the outgoing fields map of an update are exactly
\* the optional fields the caller supplied (affectsVersions as versions) and
\* the keys of customFields, and issueKey is never among them
C3_KeysAreSupplied ==
  (IsTool(UpdateTools) /\ Len(log) >= 1)
    => /\ DOMAIN OutFields =
            {WireKey(k) : k \in Supplied(call.name, call.args)} \cup CustomKeysOf(call.args)
       /\ "issueKey" \notin DOMAIN OutFields

\* C3 amended: the keys of the outgoing fields map of an update are exactly
\* the optional fields the caller supplied with a value other than the empty
\* string (affectsVersions as versions) and the keys of customFields; issueKey
\* is a key only when customFields itself carries it
C3_KeysAreNonEmptySupplied ==
  (IsTool(UpdateTools) /\ Len(log) >= 1)
    => /\ DOMAIN OutFields =
            {WireKey(k) : k \in {j \in Supplied(call.name, call.args) : call.args.o[j] # Str("")}}
              \cup CustomKeysOf(call.args)
       /\ ("issueKey" \in DOMAIN OutFields) = ("issueKey" \in CustomKeysOf(call.args))

\* an update with only a summary has sent a fields map whose only key is summary
C3_Witness ==
  /\ IsTool({"jira_update_issue"})
  /\ Len(log) = 1
  /\ DOMAIN call.args.o = {"issueKey", "summary"}
  /\ call.args.o["summary"] = Str("x")
  /\ DOMAIN OutFields = {"summary"}

\* the value the named-field steps give to a key of the fields map
NamedValue(args, k) ==
  CASE k = "project" -> Obj(One("key", Get(args, "projectKey")))
    [] k = "issuetype" -> Obj(One("name", Get(args, "issueType")))
    [] k \in {"priority", "assignee", "reporter"} -> Obj(One("name", Get(args, k)))
    [] k \in {"components", "fixVersions"} ->
         Arr([i \in 1..Len(Get(args, k).a) |-> Obj(One("name", Get(args, k).a[i]))])
    [] k = "versions" ->
         Arr([i \in 1..Len(Get(args, "affectsVersions").a) |->
                Obj(One("name", Get(args, "affectsVersions").a[i]))])
    [] OTHER -> Get(args, k)

\* C4: in the advanced create and update, every key of customFields carries
\* the customFields value in the payload, also when a named field set the
\* same key, and every other key keeps the value of the named-field steps
C4_OverlayWins ==
  (IsTool(AdvancedTools) /\ Len(log) >= 1)
    => /\ \A k \in CustomKeysOf(call.args) :
            k \in DOMAIN OutFields /\ OutFields[k] = Get(call.args, "customFields").o[k]
       /\ \A k \in DOMAIN OutFields \ CustomKeysOf(call.args) :
            OutFields[k] = NamedValue(call.args, k)

\* components given both as a named field and in customFields: the overlay is sent
C4_Witness ==
  /\ IsTool({"jira_update_issue_advanced"})
  /\ Len(log) = 1
  /\ Get(call.args, "components").t = "array"
  /\ "components" \in CustomKeysOf(call.args)
  /\ OutFields["components"] = Overlay

\* C5: jira_assign_issue with a null or string assignee passes validation and
\* issues exactly one PUT to /issue/{key}/assignee whose body has the key
\* name, holding null for a null assignee and the string for a string
C5_AssignBody ==
  (/\ IsTool({"jira_assign_issue"})
   /\ Get(call.args, "issueKey").t = "string"
   /\ Get(call.args, "assignee").t \in {"null", "string"})
    => /\ ~Failed("InvalidParams")
       /\ Len(log) = 1
       /\ log[1].req.method = "PUT"
       /\ log[1].req.endpoint = <<"/issue/", Get(call.args, "issueKey").s, "/assignee">>
       /\ log[1].req.body.kind = "json"
       /\ DOMAIN log[1].req.body.v.o = {"name"}
       /\ log[1].req.body.v.o["name"] = Get(call.args, "assignee")

\* an unassign has been sent with a literal null and has succeeded
C5_Witness ==
  /\ IsTool({"jira_assign_issue"})
  /\ Get(call.args, "assignee") = Null
  /\ Len(log) = 1
  /\ log[1].req.body.v.o["name"] = Null
  /\ pc = "done"
  /\ reply.k = "result"

\* the call runs getFieldOptions, through the tool or directly
IsFieldOptions ==
  \/ IsTool({"jira_get_field_options"}) /\ ~FailsSchema(call.name, call.args)
  \/ call.kind = "client" /\ call.op.m = "getFieldOptions"

FieldOptionsTypeName ==
  IF call.kind = "tool" THEN Get(call.args, "issueType") ELSE call.op.a[2]

\* the issue types the remote returned to the first request, once it succeeded
TypesFetched ==
  /\ Len(log) >= 1
  /\ ResponseOk(log[1].resp)
  /\ log[1].resp.body.kind = "json"
  /\ Get(log[1].resp.body.v, "values").t = "array"

FetchedTypes == Get(log[1].resp.body.v, "values").a

NoTypeMatches(name) ==
  \A i \in 1..Len(FetchedTypes) :
    ToLowerCase(Get(FetchedTypes[i], "name").s) # ToLowerCase(name.s)

\* the call ends with the client's result v
Returned(v) ==
  (pc = "done") =>
     \/ call.kind = "client" /\ reply = [k |-> "returned", v |-> v]
     \/ call.kind = "tool" /\ reply = ToolResult(JsonText(v))

\* C6: when the issue types fetch succeeds and no issue type matches the
\* given name, getFieldOptions returns an empty list, raises no error and
\* issues no field fetch
C6_NoMatchIsEmpty ==
  (IsFieldOptions /\ TypesFetched /\ NoTypeMatches(FieldOptionsTypeName))
    => (Len(log) = 1 /\ Returned(Arr(<<>>)))

\* the resource list of an enumeration that has ended
ListedUris == {reply.resources[i].uri : i \in 1..Len(reply.resources)}

\* one of the lookups of the enumeration has failed
LookupFailed ==
  \E i \in 1..Len(log) : log[i].resp # NoResp /\ request(log[i].resp).k = "throw"

\* C7: resource enumeration never fails; its list always contains
\* jira://config, and when a lookup fails it is the static resource alone
C7_ListNeverFails ==
  (call.kind = "list")
    => /\ reply.k # "error"
       /\ (pc = "done") =>
            /\ reply.k = "result"
            /\ <<"jira://config">> \in ListedUris
            /\ LookupFailed => (Len(reply.resources) = 1 /\ ListedUris = {<<"jira://config">>})

\* the current-user lookup failed after the project list succeeded, and the
\* enumeration answered with the static resource
C7_Witness ==
  /\ call.kind = "list"
  /\ pc = "done"
  /\ Len(log) = 2
  /\ ResponseOk(log[1].resp)
  /\ ~ResponseOk(log[2].resp)
  /\ ListedUris = {<<"jira://config">>}

\* an identifier the read handler is meant to recognise
UpperAlnumKey(k) ==
  /\ Len(Chars(k)) >= 1
  /\ \A i \in 1..Len(Chars(k)) : Chars(k)[i] \in UpperOrDigit

Recognised(uri) ==
  \/ uri = <<"jira://config">>
  \/ uri \in FixedUris
  \/ Len(uri) = 2 /\ uri[1] = "jira://project/" /\ UpperAlnumKey(uri[2])

RemoteFailed == \E i \in 1..Len(log) : log[i].resp # NoResp /\ ~ResponseOk(log[i].resp)

\* C8: a read of an unrecognised identifier fails with the unknown-resource
\* (invalid-request) error and issues no request; a read of a recognised
\* identifier whose remote call fails ends in an internal error
C8_UnknownResource ==
  (call.kind = "read")
    => /\ ~Recognised(call.uri) => (Failed("InvalidRequest") /\ Len(log) = 0)
       /\ (Recognised(call.uri) /\ RemoteFailed) => Failed("InternalError")

\* a per-project identifier with a lower-case key has been refused
C8_Witness ==
  /\ call.kind = "read"
  /\ call.uri = <<"jira://project/", "proj">>
  /\ Failed("InvalidRequest")
  /\ Len(log) = 0

\* the client methods that return what request returns
PassThroughMethods ==
  {"getIssue", "createIssue", "searchIssues", "getProjects", "getProject", "getComments",
   "addComment", "updateComment", "getTransitions", "searchUsers", "getCurrentUser",
   "getPriorities", "getStatuses", "getCreateMetaIssueTypes", "getCreateMetaFields",
   "getEditMeta", "getProjectVersions", "getProjectComponents", "getFields",
   "getIssueLinkTypes", "createIssueRaw"}

\* C9: a successful response with a body gives the parsed body, a successful
\* response without a body gives an empty object, a non-success status gives
\* a failure carrying the status and the raw text; no 2xx response fails
C9_RequestOutcomes ==
  (call.kind = "client" /\ call.op.m \in PassThroughMethods /\ pc = "done")
    => /\ (ResponseOk(log[1].resp) /\ log[1].resp.body.kind = "json")
            => reply = [k |-> "returned", v |-> log[1].resp.body.v]
       /\ (ResponseOk(log[1].resp) /\ log[1].resp.body.kind # "json")
            => reply = [k |-> "returned", v |-> Obj(NoProps)]
       /\ ~ResponseOk(log[1].resp)
            => reply = [k |-> "threw",
                        e |-> Error(ApiErrorMsg(log[1].resp.status, log[1].resp.body))]
       /\ ResponseOk(log[1].resp) => reply.k = "returned"

\* C10: a client method other than getCreateMeta and getFieldOptions issues
\* exactly one HTTP request, also when the response is a failure, and the
\* failure reaches its caller
C10_SingleAttempt ==
  (call.kind = "client" /\ call.op.m \notin CompositeMethods)
    => /\ Len(log) = 1
       /\ (pc = "done") =>
            /\ log[1].resp # NoResp
            /\ ~ResponseOk(log[1].resp) =>
                 reply = [k |-> "threw",
                          e |-> Error(ApiErrorMsg(log[1].resp.status, log[1].resp.body))]

\* deleteComment was answered 404: one request, and the caller got the error
C10_Witness ==
  /\ call.kind = "client"
  /\ call.op.m = "deleteComment"
  /\ pc = "done"
  /\ Len(log) = 1
  /\ log[1].resp.status = 404
  /\ reply.k = "threw"

\* the three headers every request must carry
DefaultHeaderNames == {"Authorization", "Content-Type", "Accept"}

\* the headers the call in progress gave of its own (none, except through request)
GivenHeaders ==
  IF call.kind = "client" /\ call.op.m = "request"
  THEN Get(call.op.a[2], "headers").o ELSE NoProps

\* C11: every HTTP request carries Authorization, Content-Type and Accept;
\* Authorization is Bearer {configured token} and the other two are JSON,
\* unless the call gave that header itself, and then its value is the call's
C11_DefaultHeaders ==
  \A i \in 1..Len(log) :
    /\ DefaultHeaderNames \subseteq DOMAIN log[i].req.headers
    /\ \A h \in DefaultHeaderNames :
         log[i].req.headers[h] =
           IF h \in DOMAIN GivenHeaders THEN GivenHeaders[h]
           ELSE IF h = "Authorization" THEN Bearer(PAT)
           ELSE Str("application/json")

\* a request that replaced Accept still carries the bearer token
C11_Witness ==
  /\ call.kind = "client"
  /\ call.op.m = "request"
  /\ Len(log) = 1
  /\ log[1].req.headers["Accept"] = Str("text/plain")
  /\ log[1].req.headers["Authorization"] = Bearer(PAT)
  /\ log[1].req.headers["Content-Type"] = Str("application/json")

\* a tool call that has ended in a success reply
ToolSucceeded == call.kind = "tool" /\ pc = "done" /\ reply.k = "result"

\* the tools whose client method is a composite of several requests
CompositeTools == {"jira_get_create_meta", "jira_get_field_options"}

\* the issue keys the caller named in an action-only call
AffectedKeys ==
  IF call.name = "jira_link_issues"
  THEN {Get(call.args, "inwardIssue"), Get(call.args, "outwardIssue")}
  ELSE {Get(call.args, "issueKey")}

ConfirmationFormats ==
  {"Issue {issueKey} updated successfully", "Issue {issueKey} deleted successfully",
   "Issue {issueKey} assigned to {assignee}", "Issue {issueKey} unassigned",
   "Issue {issueKey} transitioned successfully",
   "Issues {inwardIssue} and {outwardIssue} linked with type \"{linkType}\"",
   "Added {username} as watcher to {issueKey}"}

\* C12: a successful tool call answers with exactly one text block; for the
\* action-only tools the text is a fixed confirmation naming the issue
\* key(s) the caller gave, for every other tool it is the serialization of
\* what the client returned, unmodified
C12_SingleTextBlock ==
  ToolSucceeded =>
    /\ Len(reply.content) = 1
    /\ reply.content[1].type = "text"
    /\ (call.name \in ActionTools) =>
         /\ reply.content[1].text.kind = "template"
         /\ reply.content[1].text.fmt \in ConfirmationFormats
         /\ \A key \in AffectedKeys :
              \E i \in 1..Len(reply.content[1].text.holes) :
                reply.content[1].text.holes[i] = key
    /\ (call.name \notin ActionTools /\ call.name \notin CompositeTools) =>
         reply.content[1].text =
           (IF log[1].resp.status = 204 THEN JsonText(Obj(NoProps)) ELSE log[1].resp.body)
    /\ (call.name \in CompositeTools) =>
         reply.content[1].text =
           JSONStringify(
             ClientRun(ToolOp(call.name, Parsed(ToolSchema(call.name), call.args)), log).v)

\* a search whose remote result has total 5 and two issues is answered with
\* total 5 and exactly two issues
C12_Witness ==
  /\ ToolSucceeded
  /\ call.name = "jira_search_issues"
  /\ log[1].resp.body.kind = "json"
  /\ Get(log[1].resp.body.v, "total") = Num(5)
  /\ Get(reply.content[1].text.v, "total") = Num(5)
  /\ Len(Get(reply.content[1].text.v, "issues").a) = 2

\* the messages of the errors the requests of the call have raised, and of
\* the error raised when a result has not the shape the code reads
RaisedMessages ==
  {request(log[i].resp).e.msg :
     i \in {j \in 1..Len(log) : log[j].resp # NoResp /\ request(log[j].resp).k = "throw"}}
  \cup {TypeError.msg}

\* C13: whatever calls came before and however they ended, the server is
\* back in its initial state when the next call arrives, and a reply is
\* determined by its own call and responses alone; a failure that is neither
\* a validation error nor an unknown-name error is an internal error
\* carrying the original message
C13_ServesAfterFailure ==
  /\ (pc = "idle") =>
       /\ call = NoCall /\ log = <<>> /\ reply = NoReply
       /\ client = JiraClient([baseUrl |-> JIRA_BASE_URL, pat |-> PAT])
  /\ (pc = "done") => reply = Handler(call, log).reply
  /\ (pc = "done" /\ call.kind \in {"tool", "read"} /\ reply.k = "error"
        /\ reply.code \notin {"InvalidParams", "MethodNotFound", "InvalidRequest"}) =>
       /\ reply.code = "InternalError"
       /\ "message" \in DOMAIN reply.msg
       /\ reply.msg.message \in RaisedMessages

\* a tool call is answered with a result right after a call that failed
C13_Witness ==
  /\ prev = "failed"
  /\ call.kind = "tool"
  /\ pc = "done"
  /\ reply.k = "result"

\* the create calls that were answered with the key the call in progress asks for
MadeWithKey == {i \in 1..Len(made) : made[i].key = Get(call.args, "issueKey")}

\* C14: against the storing tracker, an issue fetched by the key its create
\* returned carries that key and the summary, project key and issue type
\* name the create was given
C14_CreateThenGet ==
  (call.kind = "tool" /\ call.name = "jira_get_issue" /\ pc = "done") =>
    \A i \in MadeWithKey :
      /\ reply.k = "result"
      /\ Get(reply.content[1].text.v, "key") = Get(call.args, "issueKey")
      /\ Get(Get(reply.content[1].text.v, "fields"), "summary") = Get(made[i].args, "summary")
      /\ Get(Get(Get(reply.content[1].text.v, "fields"), "project"), "key")
           = Get(made[i].args, "projectKey")
      /\ Get(Get(Get(reply.content[1].text.v, "fields"), "issuetype"), "name")
           = Get(made[i].args, "issueType")

\* the second issue created has been fetched by its key
C14_Witness ==
  /\ call.kind = "tool"
  /\ call.name = "jira_get_issue"
  /\ pc = "done"
  /\ Get(call.args, "issueKey") = Str("PROJ-2")
  /\ MadeWithKey # {}
  /\ reply.k = "result"

\* C15: the tool listing advertises exactly 27 distinct names; no
\* advertised name ends in the unknown-operation error, and every name the
\* dispatcher handles is advertised
C15_ListedAreHandled ==
  /\ (call.kind = "tools" /\ pc = "done") =>
       /\ Len(reply.tools) = 27
       /\ Cardinality({reply.tools[i] : i \in 1..Len(reply.tools)}) = 27
  /\ (call.kind = "tool" /\ pc = "done") =>
       (call.name \in ListedTools) = ~Failed("MethodNotFound")

\* the listing has been answered
C15_Witness ==
  /\ call.kind = "tools"
  /\ pc = "done"
  /\ "jira_update_issue_advanced" \in {reply.tools[i] : i \in 1..Len(reply.tools)}

\* the fields of the schema the call leaves out although they are required
MissingRequired ==
  {i \in 1..Len(ToolSchema(call.name)) :
     /\ ~ToolSchema(call.name)[i].opt
     /\ Get(call.args, ToolSchema(call.name)[i].k) = Undef}

\* the fields of the schema the call gives with a value of the wrong type
WrongType ==
  {i \in 1..Len(ToolSchema(call.name)) :
     /\ Get(call.args, ToolSchema(call.name)[i].k) # Undef
     /\ ~Fits(ToolSchema(call.name)[i], Get(call.args, ToolSchema(call.name)[i].k))}

\* C16: arguments that violate the schema in several ways give one
\* invalid-parameters error whose message holds a message for every
\* violation: one "Required" for each missing required field and at least
\* one type message for each field of the wrong type
C16_AllViolations ==
  (IsTool(SchemaTools) /\ pc = "done" /\ call.args.t = "object"
     /\ MissingRequired \cup WrongType # {}) =>
    /\ Failed("InvalidParams")
    /\ Cardinality({j \in 1..Len(reply.msg.messages) : reply.msg.messages[j] = <<"Required">>})
         = Cardinality(MissingRequired)
    /\ Cardinality({j \in 1..Len(reply.msg.messages) :
                      reply.msg.messages[j][1] = "Expected "})
         >= Cardinality(WrongType)

\* a call with one required field missing and another of the wrong type has
\* been answered with both messages
C16_Witness ==
  /\ IsTool(SchemaTools)
  /\ pc = "done"
  /\ call.args.t = "object"
  /\ Cardinality(MissingRequired) = 1
  /\ Cardinality(WrongType) = 1
  /\ Failed("InvalidParams")
  /\ Len(reply.msg.messages) = 2

\* the call in progress reads a per-project resource
IsProjectRead ==
  call.kind = "read" /\ Len(call.uri) = 2 /\ Recognised(call.uri)

AllAnswered == \A i \in 1..Len(log) : log[i].resp # NoResp

\* C17: a read of project/{KEY} issues its four client calls (project,
\* versions, components, creatable issue types) at once; the snapshot is
\* returned only after all four have completed, and it is built from the
\* four results by their position, whatever order they completed in
C17_FourParallelCalls ==
  IsProjectRead =>
    /\ Len(log) = 4
    /\ \A i \in 1..4 :
         log[i].req = FetchCall(client, ProjectRequests(Str(call.uri[2]))[i])
    /\ (pc = "done" /\ reply.k = "result") => AllAnswered
    /\ (AllAnswered /\ \A i \in 1..4 : request(log[i].resp).k = "value") =>
         /\ pc = "done"
         /\ reply = ReadOutcome(call.uri,
                      ReadReturn(call.uri,
                        ProjectInfo(request(log[1].resp).v, request(log[2].resp).v,
                                    request(log[3].resp).v, request(log[4].resp).v))).reply

\* the four calls completed in the reverse of the order they were issued
\* in, and the snapshot was returned
C17_Witness ==
  /\ IsProjectRead
  /\ pc = "done"
  /\ reply.k = "result"
  /\ log[4].at = 1 /\ log[3].at = 2 /\ log[2].at = 3 /\ log[1].at = 4

\* the headers a call gives of its own
GivenBy(c) ==
  IF c.kind = "client" /\ c.op.m = "request" THEN Get(c.op.a[2], "headers").o ELSE NoProps

\* C18: with several calls in flight and their responses interleaved, the
\* reply of each call is the reply its handler gives on that call's own
\* requests and responses, each of its requests is the one the freshly
\* constructed client sends for it, and the client's base URL and headers
\* stay as constructed
C18_CallsAreIsolated ==
  /\ client = JiraClient([baseUrl |-> JIRA_BASE_URL, pat |-> PAT])
  /\ \A s \in 1..MaxInFlight :
       /\ (slots[s].pc = "done") =>
            slots[s].reply = Handler(slots[s].call, slots[s].log).reply
       /\ \A i \in 1..Len(slots[s].log) :
            /\ slots[s].log[i].req.url[1] = "https://jira.example.com"
            /\ slots[s].log[i].req.headers =
                 Assign(JiraClient([baseUrl |-> JIRA_BASE_URL, pat |-> PAT]).headers,
                        GivenBy(slots[s].call))

\* a call that gave its own Accept header has been answered while an
\* enumeration that arrived with it is between its two lookups
C18_Witness ==
  /\ slots[1].pc = "done"
  /\ slots[1].call.kind = "client"
  /\ slots[2].pc = "running"
  /\ slots[2].call.kind = "list"
  /\ Len(slots[2].log) = 2
  /\ slots[2].log[1].resp # NoResp


\* the eight resources the enumeration lists whatever the projects are
ListedFixedUris ==
  {<<"jira://config">>, <<"jira://current-user">>, <<"jira://priorities">>,
   <<"jira://statuses">>, <<"jira://fields">>, <<"jira://link-types">>,
   <<"jira://projects">>, <<"jira://my-issues">>}

\* an enumeration whose two lookups have both returned what they ask for
BothLookupsSucceeded ==
  /\ pc = "done" /\ call.kind = "list" /\ Len(log) = 2
  /\ request(log[1].resp).k = "value" /\ request(log[1].resp).v.t = "array"
  /\ request(log[2].resp).k = "value" /\ request(log[2].resp).v.t = "object"

RemoteProjects == request(log[1].resp).v.a

PerProject(resources) == SelectSeq(resources, LAMBDA r : Len(r.uri) = 2)

\* C19: when both enumeration lookups succeed and the remote has N projects,
\* the enumeration lists the eight fixed resources and exactly min(N, 20)
\* per-project resources, for the first min(N, 20) projects in remote order.
C19_ProjectCap ==
  BothLookupsSucceeded =>
    LET n == IF Len(RemoteProjects) < 20 THEN Len(RemoteProjects) ELSE 20
        per == PerProject(reply.resources)
    IN /\ reply.k = "result"
       /\ Len(reply.resources) = 8 + n
       /\ {reply.resources[i].uri : i \in 1..Len(reply.resources)} \ {per[i].uri : i \in 1..Len(per)}
            = ListedFixedUris
       /\ Len(per) = n
       /\ \A i \in 1..n : per[i].uri = <<"jira://project/", Get(RemoteProjects[i], "key").s>>

\* an enumeration of a remote with more projects than are listed
C19_Witness ==
  /\ BothLookupsSucceeded
  /\ Len(RemoteProjects) > 20
  /\ Len(PerProject(reply.resources)) = 20


IsCreateMeta == call.kind = "client" /\ call.op.m = "getCreateMeta"

\* the issue types the claim has fetched: those named as asked, ignoring
\* case, or all of them when no name is given
NamedTypes(name) ==
  IF name = Undef THEN FetchedTypes
  ELSE SelectSeq(FetchedTypes,
                 LAMBDA t : ToLowerCase(Get(t, "name").s) = ToLowerCase(name.s))

\* the fields the remote returned for the i-th field fetch
FetchedFields(i) == Get(log[i + 1].resp.body.v, "values").a

FieldFetchOk(i) ==
  /\ log[i + 1].resp # NoResp
  /\ PageValues(request(log[i + 1].resp)).k = "value"

FieldFetchFailed(i) ==
  /\ log[i + 1].resp # NoResp
  /\ PageValues(request(log[i + 1].resp)).k = "throw"

\* the result lists the issue types in remote order, each with its fields
\* flagged by whether the remote supplied allowed values
MetaInRemoteOrder(want) ==
  /\ reply.k = "returned"
  /\ Get(reply.v, "projectKey") = call.op.a[1]
  /\ Len(Get(reply.v, "issueTypes").a) = Len(want)
  /\ \A i \in 1..Len(want) :
       LET got == Get(reply.v, "issueTypes").a[i]
       IN /\ Get(got, "id") = Get(want[i], "id")
          /\ Get(got, "name") = Get(want[i], "name")
          /\ Len(Get(got, "fields").a) = Len(FetchedFields(i))
          /\ \A j \in 1..Len(FetchedFields(i)) :
               /\ Get(Get(got, "fields").a[j], "fieldId") = Get(FetchedFields(i)[j], "fieldId")
               /\ Get(Get(got, "fields").a[j], "hasAllowedValues")
                    = Bool(Get(FetchedFields(i)[j], "allowedValues") # Undef)

CreateMetaAsClaimed(want) ==
  /\ Len(log) = 1 + Len(want)
  /\ \A i \in 1..Len(want) :
       log[i + 1].req
         = FetchCall(client, getCreateMetaFields(call.op.a[1], Get(want[i], "id")))
  /\ (pc = "done" /\ \A i \in 1..Len(want) : FieldFetchOk(i)) => MetaInRemoteOrder(want)
  /\ (pc = "done" /\ \E i \in 1..Len(want) : FieldFetchFailed(i)) => reply.k = "threw"

\* C20: getCreateMeta issues one issue-types fetch, then exactly one field
\* fetch for each issue type whose name equals the given name ignoring case
\* (for every issue type when no name is given); the result lists those
\* issue types in remote order whatever order the field fetches complete in,
\* each field is flagged hasAllowedValues exactly when the remote supplied
\* allowed values for it, and a failed field fetch fails the operation.
C20_CreateMeta ==
  IsCreateMeta =>
    /\ Len(log) >= 1
         => log[1].req = FetchCall(client, getCreateMetaIssueTypes(call.op.a[1]))
    /\ TypesFetched => CreateMetaAsClaimed(NamedTypes(call.op.a[2]))


FieldOptionsKey ==
  IF call.kind = "tool" THEN Get(call.args, "fieldKey") ELSE call.op.a[3]

\* the allowed values the remote supplied for the first field of fs with
\* the key, the empty list when there is no such field or no such values
SuppliedOptions(fs, key) ==
  LET hit == {j \in 1..Len(fs) : Get(fs[j], "fieldId") = key}
      first == CHOOSE j \in hit : \A k \in hit : j <= k
  IN IF hit = {} THEN Arr(<<>>)
     ELSE IF Get(fs[first], "allowedValues") = Undef THEN Arr(<<>>)
     ELSE Get(fs[first], "allowedValues")

\* getFieldOptions has ended, an issue type matched the name, and every
\* fetch it made succeeded
FieldOptionsFetched ==
  /\ IsFieldOptions
  /\ pc = "done"
  /\ TypesFetched
  /\ Len(NamedTypes(FieldOptionsTypeName)) >= 1
  /\ Len(log) = 1 + Len(NamedTypes(FieldOptionsTypeName))
  /\ \A i \in 1..(Len(log) - 1) : FieldFetchOk(i)

\* C21: getFieldOptions returns the allowed values of the field with the
\* given key in the first issue type matching the given name, and of that
\* issue type only; when that issue type has no field with the key, or the
\* field carries no allowed values, the result is an empty list, not an error.
C21_FirstMatchingType ==
  FieldOptionsFetched => Returned(SuppliedOptions(FetchedFields(1), FieldOptionsKey))

\* two issue types match, the remote gave them different fields, and the
\* options are those of the first
C21_Witness ==
  /\ FieldOptionsFetched
  /\ Len(log) = 3
  /\ SuppliedOptions(FetchedFields(1), FieldOptionsKey) # Arr(<<>>)
  /\ SuppliedOptions(FetchedFields(2), FieldOptionsKey) = Arr(<<>>)
  /\ Returned(SuppliedOptions(FetchedFields(1), FieldOptionsKey))

\* the matching issue type has no field with the key, and the result is empty
C21_WitnessNoField ==
  /\ FieldOptionsFetched
  /\ \A j \in 1..Len(FetchedFields(1)) : Get(FetchedFields(1)[j], "fieldId") # FieldOptionsKey
  /\ Len(FetchedFields(1)) >= 1
  /\ Returned(Arr(<<>>))


FieldTools ==
  {"jira_create_issue", "jira_update_issue", "jira_create_issue_advanced",
   "jira_update_issue_advanced"}

\* the optional scalar fields of a create or update tool
OptionalScalars(name) ==
  OptionalKeys(name) \cap {"summary", "description", "priority", "assignee", "reporter"}

AbsentOrEmpty(v) == v = Undef \/ v = Str("")

AlwaysSent(name) ==
  IF name \in UpdateTools THEN {} ELSE {"project", "summary", "issuetype"}

\* C22 as stated: in the basic and advanced create and update tools, an
\* optional scalar field that is absent or the empty string is no key of the
\* outgoing fields map and no null is sent for it; a create always sends
\* project, summary and issuetype
C22_ScalarsOmitted ==
  (IsTool(FieldTools) /\ Len(log) >= 1)
    => /\ \A k \in OptionalScalars(call.name) :
            AbsentOrEmpty(Get(call.args, k)) => k \notin DOMAIN OutFields
       /\ AlwaysSent(call.name) \subseteq DOMAIN OutFields

\* C22 amended: an optional scalar field that is absent or the empty string
\* is a key of the outgoing fields map only when customFields itself carries
\* that key, and then with the value customFields gives it (null included);
\* a create always sends project, summary and issuetype
C22_ScalarsOmittedUnlessCustom ==
  (IsTool(FieldTools) /\ Len(log) >= 1)
    => /\ \A k \in OptionalScalars(call.name) :
            AbsentOrEmpty(Get(call.args, k)) =>
              /\ (k \in DOMAIN OutFields) = (k \in CustomKeysOf(call.args))
              /\ (k \in DOMAIN OutFields)
                   => OutFields[k] = Get(call.args, "customFields").o[k]
       /\ AlwaysSent(call.name) \subseteq DOMAIN OutFields

\* an advanced create with an empty description and an absent priority has
\* sent the three fixed fields and nothing else
C22_Witness ==
  /\ IsTool({"jira_create_issue_advanced"})
  /\ Len(log) = 1
  /\ Get(call.args, "description") = Str("")
  /\ Get(call.args, "priority") = Undef
  /\ DOMAIN OutFields = {"project", "summary", "issuetype"}


\* the requests of the call the tracker has answered with a non-success status
Refused == {i \in 1..Len(log) : log[i].resp # NoResp /\ ~ResponseOk(log[i].resp)}

\* C23: when the tracker answers a tool's remote call with a non-success
\* status S and body text B, the tool call ends in an internal error whose
\* message contains both S and B, and the call sends and receives nothing more.
C23_RemoteFailureIsInternal ==
  (call.kind = "tool")
    => \A i \in Refused :
         /\ pc = "done"
         /\ reply.k = "error"
         /\ reply.code = "InternalError"
         /\ reply.msg.name = call.name
         /\ reply.msg.message.status = log[i].resp.status
         /\ reply.msg.message.errorText = log[i].resp.body
         /\ \A j \in 1..Len(log) : log[j].at <= log[i].at

\* one of the field fetches of jira_get_create_meta was refused with 404
\* while another was still in flight
C23_Witness ==
  /\ IsTool({"jira_get_create_meta"})
  /\ Len(log) = 3
  /\ \E i \in Refused : log[i].resp = Response(404, ErrorBody)
  /\ \E j \in 1..Len(log) : log[j].resp = NoResp
  /\ reply.k = "error"
  /\ reply.code = "InternalError"


\* the i-th request of the call is r and the tracker has answered it
Answered(i, r) ==
  /\ Len(log) >= i
  /\ log[i].req = FetchCall(client, r)
  /\ log[i].resp # NoResp

\* C24 as stated: every resource enumeration performs two live calls, the
\* project list and the current user, before it returns its list
C24_TwoLiveCalls ==
  (call.kind = "list")
    => /\ (pc # "done") => reply = NoReply
       /\ (pc = "done") =>
            /\ Len(log) = 2
            /\ Answered(1, getProjects)
            /\ Answered(2, getCurrentUser)

\* C24 amended: an enumeration returns its list only after the project list
\* call has been answered; when that call succeeded it has also asked for the
\* current user, after the project list was answered, and returns only after
\* that answer; when the project list call failed it returns the static
\* resource alone without asking for the current user
C24_CallsBeforeList ==
  (call.kind = "list")
    => /\ (pc # "done") => reply = NoReply
       /\ (Len(log) >= 1) => log[1].req = FetchCall(client, getProjects)
       /\ (Len(log) >= 2) =>
            /\ Answered(1, getProjects)
            /\ request(log[1].resp).k = "value"
            /\ log[2].req = FetchCall(client, getCurrentUser)
            /\ (log[2].resp # NoResp) => log[1].at < log[2].at
       /\ (pc = "done") =>
            /\ Answered(1, getProjects)
            /\ IF request(log[1].resp).k = "value"
               THEN Len(log) = 2 /\ Answered(2, getCurrentUser)
               ELSE Len(log) = 1 /\ reply = ResourceList(ConfigOnly)

\* an enumeration has returned the full list after both calls were answered
C24_Witness ==
  /\ call.kind = "list"
  /\ pc = "done"
  /\ Answered(1, getProjects)
  /\ Answered(2, getCurrentUser)
  /\ Len(reply.resources) > 8


IsTransition ==
  \/ IsTool({"jira_transition_issue"}) /\ ~FailsSchema(call.name, call.args)
  \/ call.kind = "client" /\ call.op.m = "transitionIssue"

TransitionArg(k, i) == IF call.kind = "tool" THEN Get(call.args, k) ELSE call.op.a[i]

\* the body of the first request of the call, as it is on the wire
OutBody == log[1].req.body.v.o

CommentBlock(comment) ==
  Obj(One("comment", Arr(<<Obj(One("add", Obj(One("body", comment))))>>)))

\* the one POST of a transition, with the update block present exactly when
\* withComment holds
TransitionSent(withComment) ==
  /\ Len(log) = 1
  /\ log[1].req.method = "POST"
  /\ log[1].req.endpoint = <<"/issue/", TransitionArg("issueKey", 1).s, "/transitions">>
  /\ OutBody["transition"] = Obj(One("id", TransitionArg("transitionId", 2)))
  /\ DOMAIN OutBody = IF withComment THEN {"transition", "update"} ELSE {"transition"}
  /\ withComment => OutBody["update"] = CommentBlock(TransitionArg("comment", 3))

\* C25 as stated: transitionIssue sends one POST whose body always holds the
\* transition id under transition.id; the body holds an update block adding
\* a comment exactly when a comment is supplied, and then that block carries
\* the supplied comment text
C25_CommentWhenSupplied ==
  (IsTransition /\ pc # "idle") => TransitionSent(TransitionArg("comment", 3) # Undef)

\* C25 amended: the update block is present exactly when a comment other
\* than the empty string is supplied
C25_CommentWhenNonEmpty ==
  (IsTransition /\ pc # "idle")
    => TransitionSent(TransitionArg("comment", 3) \notin {Undef, Str("")})

\* a transition with a comment has sent the comment in its update block
C25_Witness ==
  /\ IsTool({"jira_transition_issue"})
  /\ Len(log) = 1
  /\ Get(call.args, "comment") = Str("x")
  /\ OutBody["update"] = CommentBlock(Str("x"))


IsSearch == IsTool({"jira_search_issues"}) /\ ~FailsSchema(call.name, call.args)

TwelveFields ==
  <<"summary", "status", "assignee", "reporter", "priority", "created", "updated",
    "issuetype", "project", "description", "labels", "components">>

GivenOr(k, d) == IF Get(call.args, k) = Undef THEN d ELSE Get(call.args, k)

\* C26: jira_search_issues issues a single POST to /search carrying the
\* caller's JQL unchanged, startAt defaulting to 0 and maxResults to 50 when
\* not given, and a field list that is the caller's list when one is given
\* and otherwise the fixed default set of twelve fields.
C26_SearchRequest ==
  (IsSearch /\ pc # "idle")
    => /\ Len(log) = 1
       /\ log[1].req.method = "POST"
       /\ log[1].req.endpoint = <<"/search">>
       /\ DOMAIN OutBody = {"jql", "startAt", "maxResults", "fields"}
       /\ OutBody["jql"] = Get(call.args, "jql")
       /\ OutBody["startAt"] = GivenOr("startAt", Num(0))
       /\ OutBody["maxResults"] = GivenOr("maxResults", Num(50))
       /\ OutBody["fields"] = GivenOr("fields", Strs(TwelveFields))
       /\ Len(TwelveFields) = 12

\* a search with a JQL alone has sent the defaults
C26_Witness ==
  /\ IsSearch
  /\ Len(log) = 1
  /\ DOMAIN call.args.o = {"jql"}
  /\ OutBody["startAt"] = Num(0)
  /\ OutBody["maxResults"] = Num(50)
  /\ OutBody["fields"] = Strs(TwelveFields)

\* a search given an empty field list has sent the empty list
C26_WitnessEmptyList ==
  /\ IsSearch
  /\ Len(log) = 1
  /\ Get(call.args, "fields") = Arr(<<>>)
  /\ OutBody["fields"] = Arr(<<>>)


\* what a read of the resource uri ends in when it ends before any request
ReadAtOnce(uri) == ReadResource(uri, <<>>)

UnknownResource(st) ==
  st.k = "reply" /\ st.reply.k = "error" /\ st.reply.code = "InvalidRequest"

\* C27: every resource URI returned by resource enumeration is recognised by
\* resource read: reading it never ends in the unknown-resource error,
\* whatever project keys the remote's project list contains.
C27_ListedAreReadable ==
  (call.kind = "list" /\ pc = "done")
    => \A i \in 1..Len(reply.resources) : ~UnknownResource(ReadAtOnce(reply.resources[i].uri))


ConfirmingTools ==
  {"jira_update_issue", "jira_update_issue_advanced", "jira_delete_issue",
   "jira_assign_issue", "jira_link_issues", "jira_add_watcher", "jira_transition_issue"}

\* the remote call of the tool call has failed: the tracker refused it, or
\* what it answered could not be read
RemoteCallFailed ==
  \E i \in 1..Len(log) : log[i].resp # NoResp /\ request(log[i].resp).k = "throw"

\* C28: an action-only tool returns its confirmation text only after its
\* remote call has completed with a success status; when the remote call
\* fails, no confirmation text is returned for that call.
C28_ConfirmAfterSuccess ==
  IsTool(ConfirmingTools)
    => /\ (pc # "done") => reply = NoReply
       /\ (reply.k = "result") =>
            /\ Len(log) = 1
            /\ log[1].resp # NoResp
            /\ ResponseOk(log[1].resp)
            /\ reply.content[1].text.fmt \in ConfirmationFormats
       /\ RemoteCallFailed => (pc = "done" /\ reply.k = "error")

\* a delete answered with 204 has been confirmed
C28_Witness ==
  /\ IsTool({"jira_delete_issue"})
  /\ pc = "done"
  /\ Len(log) = 1
  /\ log[1].resp.status = 204
  /\ reply.k = "result"
  /\ reply.content[1].text =
       Template("Issue {issueKey} deleted successfully", <<Get(call.args, "issueKey")>>)

\* a link refused with 404 has ended in an error, without a confirmation
C28_WitnessRefused ==
  /\ IsTool({"jira_link_issues"})
  /\ pc = "done"
  /\ Len(log) = 1
  /\ log[1].resp.status = 404
  /\ reply.k = "error"


\* an assignment that has been confirmed
AssignConfirmed ==
  /\ IsTool({"jira_assign_issue"})
  /\ pc = "done"
  /\ reply.k = "result"

\* C29: jira_assign_issue replies "Issue {key} unassigned" exactly when the
\* body it sent carried a null name, and "Issue {key} assigned to {assignee}"
\* exactly when the body carried a string name, for every assignee value the
\* schema accepts (null, the empty string, a non-empty string).
C29_ReplyMatchesBody ==
  AssignConfirmed =>
    /\ (reply.content[1].text
          = Template("Issue {issueKey} unassigned", <<Get(call.args, "issueKey")>>))
         = (OutBody["name"] = Null)
    /\ (reply.content[1].text
          = Template("Issue {issueKey} assigned to {assignee}",
                     <<Get(call.args, "issueKey"), Get(call.args, "assignee")>>))
         = (OutBody["name"].t = "string")


IsConfigRead == call.kind = "read" /\ call.uri = <<"jira://config">>

\* the configuration content of a server with the given base URL
ConfigOf(baseUrl) ==
  JSONStringify(Obj(Rec3("baseUrl", Str(baseUrl),
                         "serverInfo", Str("Self-hosted Jira Server"),
                         "authenticated", Bool(TRUE))))

\* the token of the server, as a string and as it stands in the header
TokenForms == {Str(p) : p \in Pats} \cup {Bearer(p) : p \in Pats}

\* C30: a read of the config resource issues no remote call and always
\* succeeds, and its content is a function of the configured base URL alone:
\* servers configured with the same base URL and different access tokens
\* return the same content, and no value in it is the token.
C30_ConfigHidesToken ==
  IsConfigRead
    => /\ pc = "done"
       /\ Len(log) = 0
       /\ reply.k = "result"
       /\ Len(reply.contents) = 1
       /\ reply.contents[1].uri = call.uri
       /\ reply.contents[1].text = ConfigOf(JIRA_BASE_URL)
       /\ \A k \in DOMAIN reply.contents[1].text.v.o :
            reply.contents[1].text.v.o[k] \notin TokenForms

\* the server started with the other token has answered a config read
C30_Witness ==
  /\ IsConfigRead
  /\ pc = "done"
  /\ client.headers["Authorization"] = Bearer(OtherPAT)
  /\ reply.k = "result"

====
